---- MODULE Spec2Model ----
(***************************************************************************)
(* Task Tracker API: the versioned task store (InMemoryTaskRepository and  *)
(* SqliteTaskRepository), the TaskService above it and the HTTP boundary   *)
(* (schema validation, error-to-status mapping).                           *)
(*                                                                         *)
(* Every `await` of the TypeScript code is a point where another request   *)
(* may run; the code between two awaits runs without interruption (one     *)
(* JavaScript thread).  An action of this module is one such stretch.      *)
(*                                                                         *)
(* Optional values (undefined / absent) are written None and Some(v).      *)
(* A title or a JSON text is a sequence of tokens, so that trim and        *)
(* JSON.stringify / JSON.parse are computed, not assumed.                  *)
(***************************************************************************)
EXTENDS Integers, Sequences, FiniteSets, TLC

\* ------------------------------------------------------------------ bounds
NProcs == 2          \* concurrent callers (requests in flight)
MaxTasks == 2        \* tasks ever created in one run
MaxCalls == 3        \* calls issued in one run
MaxClock == 1        \* the clock advances at most this often
MaxWrites == 3       \* creates, updates and deletes in one run of the two repositories side by side
MaxHandlers == 3     \* registrations one event holds at a time

\* ------------------------------------------------------- program constants
TitleMin == 1
TitleMax == 120
PriorityMin == 1
PriorityMax == 5
DefaultPriority == 3

\* ---------------------------------------------------------------- helpers
None == <<>>
Some(v) == <<v>>
IsSome(o) == o # <<>>
Get(o) == o[1]

Null == "null"                       \* the JavaScript null (dueDate)
Procs == 1..NProcs
NoId == 0                            \* an id no create ever allocated
Statuses == {"todo", "doing", "done"}

Rep(c, n) == [i \in 1..n |-> c]

\* String.prototype.trim, on a sequence of characters
RECURSIVE TrimStart(_)
TrimStart(s) == IF s # <<>> /\ Head(s) = " " THEN TrimStart(Tail(s)) ELSE s
RECURSIVE TrimEnd(_)
TrimEnd(s) == IF s # <<>> /\ s[Len(s)] = " " THEN TrimEnd(SubSeq(s, 1, Len(s) - 1)) ELSE s
Trim(s) == TrimEnd(TrimStart(s))

\* JSON.stringify of a string array, as a sequence of tokens
RECURSIVE JsonItems(_)
JsonItems(tags) ==
    IF tags = <<>> THEN <<>>
    ELSE <<"\"", Head(tags), "\"">> \o
         (IF Len(tags) > 1 THEN <<",">> ELSE <<>>) \o JsonItems(Tail(tags))
JsonStringify(tags) == <<"[">> \o JsonItems(tags) \o <<"]">>
\* JSON.parse of such a text: the tokens between quotes
JsonParse(text) ==
    LET idx == {i \in 2..(Len(text) - 1) : text[i - 1] = "\"" /\ text[i + 1] = "\""
                                            /\ text[i] \notin {"\"", ","}}
        RECURSIVE Pick(_)
        Pick(i) == IF i > Len(text) THEN <<>>
                   ELSE (IF i \in idx THEN <<text[i]>> ELSE <<>>) \o Pick(i + 1)
    IN Pick(1)

\* ------------------------------------------------------- request schemas
\* z.string().min(1).max(120).trim(): the checks run in the order written,
\* so the length is tested on the text as sent and the trim comes after.
ZodTitle(raw) ==
    IF Len(raw) < TitleMin \/ Len(raw) > TitleMax THEN None ELSE Some(Trim(raw))

ZodStatusOk(s) == s \in Statuses
ZodPriorityOk(n) == n \in Int /\ n >= PriorityMin /\ n <= PriorityMax
DueDates == {"2025-01-01T00:00:00Z", "2025-12-31T23:59:59Z"}
ZodDueDateOk(d) == d = Null \/ d \in DueDates      \* z.string().datetime().nullable()
ZodVersionOk(v) == v \in Int /\ v > 0              \* z.number().int().positive()

\* TaskCreateInputSchema: None when the body is rejected, else the parsed input
TaskCreateInputSchema(body) ==
    IF \/ ~IsSome(body.title)
       \/ ~IsSome(ZodTitle(Get(body.title)))
       \/ IsSome(body.status) /\ ~ZodStatusOk(Get(body.status))
       \/ IsSome(body.priority) /\ ~ZodPriorityOk(Get(body.priority))
       \/ IsSome(body.dueDate) /\ ~ZodDueDateOk(Get(body.dueDate))
    THEN None
    ELSE Some([title |-> Get(ZodTitle(Get(body.title))),
               status |-> IF IsSome(body.status) THEN body.status ELSE Some("todo"),
               priority |-> IF IsSome(body.priority) THEN body.priority
                            ELSE Some(DefaultPriority),
               dueDate |-> body.dueDate,
               tags |-> IF IsSome(body.tags) THEN body.tags ELSE Some(<<>>)])

\* TaskUpdateInputSchema
TaskUpdateInputSchema(body) ==
    IF \/ IsSome(body.title) /\ ~IsSome(ZodTitle(Get(body.title)))
       \/ IsSome(body.status) /\ ~ZodStatusOk(Get(body.status))
       \/ IsSome(body.priority) /\ ~ZodPriorityOk(Get(body.priority))
       \/ IsSome(body.dueDate) /\ ~ZodDueDateOk(Get(body.dueDate))
       \/ ~IsSome(body.version)
       \/ ~ZodVersionOk(Get(body.version))
    THEN None
    ELSE Some([title |-> IF IsSome(body.title) THEN ZodTitle(Get(body.title)) ELSE None,
               status |-> body.status,
               priority |-> body.priority,
               dueDate |-> body.dueDate,
               tags |-> body.tags,
               version |-> Get(body.version)])

\* ------------------------------------------------------------- errors
\* An error message: its text and the version numbers interpolated into it.
Message(text, expected, got) == [text |-> text, expected |-> expected, got |-> got]
NoMessage == Message("", None, None)

\* createNotFoundError / createConflictError / createValidationError build an
\* ApplicationError; `new Error(...)` and a failed SQL constraint are plain errors.
createValidationError == [type |-> "VALIDATION_ERROR", statusCode |-> 400, message |-> NoMessage]
createNotFoundError == [type |-> "NOT_FOUND", statusCode |-> 404, message |-> NoMessage]
createConflictError(message) == [type |-> "CONFLICT", statusCode |-> 409, message |-> message]
createUnauthorizedError(message) == [type |-> "UNAUTHORIZED", statusCode |-> 401, message |-> message]
PlainError(text) == [type |-> "Error", statusCode |-> 0, message |-> Message(text, None, None)]

IsApplicationError(err) ==
    err.type \in {"VALIDATION_ERROR", "NOT_FOUND", "CONFLICT", "UNAUTHORIZED"}

\* A response body: a problem detail {type, title, status, detail, instance}
\* with or without an errors member, or JSON of another shape
ProblemDetail(type, title, status, detail, errors) ==
    [shape |-> "problem", type |-> type, title |-> title, status |-> status,
     detail |-> detail, errors |-> errors]
JsonBody(shape) ==
    [shape |-> shape, type |-> "", title |-> "", status |-> 0, detail |-> NoMessage,
     errors |-> FALSE]

\* ApplicationError.toProblemDetail
toProblemDetail(err) ==
    CASE err.type = "VALIDATION_ERROR" ->
            ProblemDetail("validation-error", "Validation Failed", 400,
                          Message("One or more fields failed validation", None, None), TRUE)
      [] err.type = "NOT_FOUND" ->
            ProblemDetail("not-found", "Resource Not Found", 404,
                          Message("Task with id was not found", None, None), FALSE)
      [] err.type = "CONFLICT" ->
            ProblemDetail("conflict", "Conflict", 409, err.message, FALSE)
      [] err.type = "UNAUTHORIZED" ->
            ProblemDetail("unauthorized", "Unauthorized", 401, err.message, FALSE)

\* errorHandler: an ApplicationError answers its own status, anything else 500
\* with a fixed detail.
errorHandler(err) ==
    IF IsApplicationError(err)
    THEN [kind |-> err.type, status |-> toProblemDetail(err).status, task |-> None,
          message |-> err.message, body |-> toProblemDetail(err)]
    ELSE [kind |-> "INTERNAL", status |-> 500, task |-> None,
          message |-> Message("An unexpected error occurred", None, None),
          body |-> ProblemDetail("internal-error", "Internal Server Error", 500,
                                 Message("An unexpected error occurred", None, None), FALSE)]

\* zValidator(target, schema) without a hook: a failed parse is answered
\* c.json(result, 400), the zod result {success: false, error}
zValidatorFailure ==
    [kind |-> "ZOD_ERROR", status |-> 400, task |-> None, message |-> NoMessage,
     body |-> JsonBody("zod")]

\* c.json(task, status)
Respond(status, task) ==
    [kind |-> "ok", status |-> status, task |-> task, message |-> NoMessage,
     body |-> JsonBody(IF IsSome(task) THEN "task" ELSE "empty")]
NoResponse ==
    [kind |-> "none", status |-> 0, task |-> None, message |-> NoMessage,
     body |-> JsonBody("none")]

\* ------------------------------------------- InMemoryTaskRepository (Map)
Coalesce(o, d) == IF IsSome(o) THEN Get(o) ELSE d          \* o ?? d

\* ------------------------------------------------------- faulty variants
\* Variants of the operators below with one fault each; a property that is
\* worth stating fails when its operator is replaced by the faulty variant.
\* update that forgets `version: task.version + 1`
MemUpdatedKeepsVersion(task, input, now, ref) ==
    [task EXCEPT !.title = Coalesce(input.title, task.title),
                 !.status = Coalesce(input.status, task.status),
                 !.priority = Coalesce(input.priority, task.priority),
                 !.dueDate = IF IsSome(input.dueDate) THEN Get(input.dueDate)
                             ELSE task.dueDate,
                 !.tags = Coalesce(input.tags, task.tags),
                 !.updatedAt = now,
                 !.ref = ref]

\* update that writes `dueDate: input.dueDate ?? task.dueDate`: null keeps the date
MemUpdatedNullKeepsDueDate(task, input, now, ref) ==
    [task EXCEPT !.title = Coalesce(input.title, task.title),
                 !.status = Coalesce(input.status, task.status),
                 !.priority = Coalesce(input.priority, task.priority),
                 !.dueDate = IF IsSome(input.dueDate) /\ Get(input.dueDate) # Null
                             THEN Get(input.dueDate)
                             ELSE task.dueDate,
                 !.tags = Coalesce(input.tags, task.tags),
                 !.version = task.version + 1,
                 !.updatedAt = now,
                 !.ref = ref]

\* update that writes the new version before the new status is in place
MemUpdatedKeepsStatus(task, input, now, ref) ==
    [task EXCEPT !.title = Coalesce(input.title, task.title),
                 !.priority = Coalesce(input.priority, task.priority),
                 !.dueDate = IF IsSome(input.dueDate) THEN Get(input.dueDate)
                             ELSE task.dueDate,
                 !.tags = Coalesce(input.tags, task.tags),
                 !.version = task.version + 1,
                 !.updatedAt = now,
                 !.ref = ref]

\* delete that clears the whole map
MemDeleteAll(map, id) == [i \in {} |-> map[i]]

\* findById that answers an absent id with a record it holds
MemFindByIdAnyRecord(map, id) ==
    IF id \in DOMAIN map THEN Some(map[id])
    ELSE IF DOMAIN map # {} THEN Some(map[CHOOSE i \in DOMAIN map : TRUE])
    ELSE None

\* update without the version comparison
MemVersionMismatchNever(task, input) == FALSE

\* delete that removes nothing
MemDeleteNothing(map, id) == map

\* updateTask without the existence check
updateTaskNeverNotFound(found) == FALSE

\* create that gives an omitted dueDate a date instead of null
MemNewTaskDatedByDefault(id, input, now, ref) ==
    [id |-> id,
     title |-> input.title,
     status |-> Coalesce(input.status, "todo"),
     priority |-> Coalesce(input.priority, DefaultPriority),
     dueDate |-> Coalesce(input.dueDate, "2025-01-01T00:00:00Z"),
     tags |-> Coalesce(input.tags, <<>>),
     version |-> 1,
     createdAt |-> now,
     updatedAt |-> now,
     ref |-> ref]

\* create: the object put into the Map (and returned)
MemNewTask(id, input, now, ref) ==
    [id |-> id,
     title |-> input.title,
     status |-> Coalesce(input.status, "todo"),
     priority |-> Coalesce(input.priority, DefaultPriority),
     dueDate |-> Coalesce(input.dueDate, Null),
     tags |-> Coalesce(input.tags, <<>>),
     version |-> 1,
     createdAt |-> now,
     updatedAt |-> now,
     ref |-> ref]

MemFindById(map, id) == IF id \in DOMAIN map THEN Some(map[id]) ELSE None
MemExists(map, id) == id \in DOMAIN map
MemDelete(map, id) == [i \in DOMAIN map \ {id} |-> map[i]]

\* update: the optimistic concurrency check
MemVersionMismatch(task, input) == task.version # input.version

\* update: the object that replaces the stored one
MemUpdated(task, input, now, ref) ==
    [task EXCEPT !.title = Coalesce(input.title, task.title),
                 !.status = Coalesce(input.status, task.status),
                 !.priority = Coalesce(input.priority, task.priority),
                 !.dueDate = IF IsSome(input.dueDate) THEN Get(input.dueDate)
                             ELSE task.dueDate,
                 !.tags = Coalesce(input.tags, task.tags),
                 !.version = task.version + 1,
                 !.updatedAt = now,
                 !.ref = ref]

\* update(id, input): [map, out] where out is the returned task or the error thrown
MemUpdate(map, id, input, now, ref) ==
    IF id \notin DOMAIN map
    THEN [map |-> map, task |-> None, err |-> Some(PlainError("Task not found"))]
    ELSE IF MemVersionMismatch(map[id], input)
    THEN [map |-> map, task |-> None,
          err |-> Some(createConflictError(
                     Message("Version mismatch", Some(map[id].version), Some(input.version))))]
    ELSE [map |-> [map EXCEPT ![id] = MemUpdated(map[id], input, now, ref)],
          task |-> Some(MemUpdated(map[id], input, now, ref)),
          err |-> None]

\* ---------------------------------------- SqliteTaskRepository (table tasks)
\* The CHECK constraints of CREATE TABLE tasks
SqlCheck(row) ==
    /\ Len(row.title) >= 1 /\ Len(row.title) <= 120
    /\ row.status \in {"todo", "doing", "done"}
    /\ row.priority >= 1 /\ row.priority <= 5

\* A fresh object built from a row; ref 0: an object nobody else refers to
rowToTask(row) ==
    [id |-> row.id,
     title |-> row.title,
     status |-> row.status,
     priority |-> row.priority,
     dueDate |-> row.due_date,
     tags |-> JsonParse(row.tags),
     version |-> row.version,
     createdAt |-> row.created_at,
     updatedAt |-> row.updated_at,
     ref |-> 0]

\* create: the row of the INSERT
SqlNewRow(id, input, now) ==
    [id |-> id,
     title |-> input.title,
     status |-> Coalesce(input.status, "todo"),
     priority |-> Coalesce(input.priority, DefaultPriority),
     due_date |-> Coalesce(input.dueDate, Null),
     tags |-> JsonStringify(Coalesce(input.tags, <<>>)),
     version |-> 1,
     created_at |-> now,
     updated_at |-> now]

SqlFindById(table, id) == IF id \in DOMAIN table THEN Some(rowToTask(table[id])) ELSE None
SqlExists(table, id) == id \in DOMAIN table
SqlDelete(table, id) == [i \in DOMAIN table \ {id} |-> table[i]]

\* update: the SET clause built from the fields of the input that are defined
SqlUpdateSet(row, input, now) ==
    [row EXCEPT !.title = IF IsSome(input.title) THEN Get(input.title) ELSE row.title,
                !.status = IF IsSome(input.status) THEN Get(input.status) ELSE row.status,
                !.priority = IF IsSome(input.priority) THEN Get(input.priority)
                             ELSE row.priority,
                !.due_date = IF IsSome(input.dueDate) THEN Get(input.dueDate)
                             ELSE row.due_date,
                !.tags = IF IsSome(input.tags) THEN JsonStringify(Get(input.tags))
                         ELSE row.tags,
                !.version = row.version + 1,
                !.updated_at = now]

\* update: WHERE id = ? AND version = ?
SqlUpdateWhere(row, id, version) == row.id = id /\ row.version = version

\* update, after `current` was read: the pre-check, the conditional UPDATE and
\* the read of the updated row.  [table, task, err]
SqlUpdateWrite(table, id, input, current, now) ==
    IF ~IsSome(current)
    THEN [table |-> table, task |-> None, err |-> Some(PlainError("Task not found"))]
    ELSE IF Get(current).version # input.version
    THEN [table |-> table, task |-> None,
          err |-> Some(createConflictError(
                     Message("Version mismatch", Some(Get(current).version),
                             Some(input.version))))]
    ELSE IF ~(id \in DOMAIN table /\ SqlUpdateWhere(table[id], id, input.version))
    THEN [table |-> table, task |-> None,
          err |-> Some(createConflictError(
                     Message("Version conflict or task not found", None, None)))]
    ELSE IF ~SqlCheck(SqlUpdateSet(table[id], input, now))
    THEN [table |-> table, task |-> None, err |-> Some(PlainError("CHECK constraint failed"))]
    ELSE [table |-> [table EXCEPT ![id] = SqlUpdateSet(table[id], input, now)],
          task |-> Some(rowToTask(SqlUpdateSet(table[id], input, now))),
          err |-> None]

\* ------------------------------------------------------------------ state
VARIABLES
    cache,      \* section-b: the module-level cache of getUser, id -> User object
    handlers,   \* section-d: TypedEventEmitter.handlers, event -> handler array
    app,        \* the application that serves the routes: "hono" or "express"
    repo,       \* the TaskRepository given to TaskService: "memory" or "sqlite"
    tasks,      \* InMemoryTaskRepository.tasks: id -> Task object
    db,         \* SqliteTaskRepository: table tasks, id -> row
    nextId,     \* ids handed out so far (uuidv4 never repeats one)
    nextRef,    \* object identities handed out so far
    clock,      \* the time new Date() reads
    calls,      \* calls issued so far
    pc,         \* per caller: where its request stands
    req,        \* per caller: the operation, the id and the parsed input
    loc,        \* per caller: the locals kept across an await
    out         \* the response delivered last, with the request it answers

vars == <<cache, handlers, app, repo, tasks, db, nextId, nextRef, clock, calls, pc, req, loc, out>>

NoReq == [op |-> "none", id |-> NoId, input |-> None]
NoLoc == [exists |-> FALSE, current |-> None, v0 |-> None]
NoOut == [req |-> NoReq, v0 |-> None, response |-> NoResponse]

\* The stored tasks, whichever repository holds them
StoredIds == IF repo = "memory" THEN DOMAIN tasks ELSE DOMAIN db
Stored(i) == IF repo = "memory" THEN tasks[i] ELSE rowToTask(db[i])
exists(i) == IF repo = "memory" THEN MemExists(tasks, i) ELSE SqlExists(db, i)
findById(i) == IF repo = "memory" THEN MemFindById(tasks, i) ELSE SqlFindById(db, i)
StoredVersion(i) == IF i \in StoredIds THEN Some(Stored(i).version) ELSE None

\* new Date(): the clock may have advanced since it was last read
Nows == {clock} \cup (IF clock < MaxClock THEN {clock + 1} ELSE {})

\* ------------------------------------------------------------ input sets
Body(title, status, priority, dueDate, tags, version) ==
    [title |-> title, status |-> status, priority |-> priority, dueDate |-> dueDate,
     tags |-> tags, version |-> version]

CreateBodies ==
    { Body(Some(<<"a">>), None, None, None, None, None),
      Body(Some(<<" ", "b", " ">>), Some("doing"), Some(5),
           Some("2025-01-01T00:00:00Z"), Some(<<"t1", "t2">>), None),
      Body(Some(<<" ">>), None, None, None, None, None),
      Body(Some(<<>>), None, None, None, None, None),
      Body(Some(Rep("x", TitleMax + 1)), None, None, None, None, None),
      Body(None, None, None, None, None, None),
      Body(Some(<<"a">>), Some("invalid"), None, None, None, None),
      Body(Some(<<"a">>), None, Some(PriorityMax + 1), None, None, None),
      Body(Some(<<"a">>), None, None, Some("2025-13-32"), None, None) }

InputVersions == {1, 2}

UpdateBodies ==
    UNION {
      { Body(None, Some("done"), Some(1), None, Some(<<"t3">>), Some(v)),
        Body(Some(<<" ", "c">>), None, None, Some(Null), None, Some(v)),
        Body(Some(<<" ">>), None, None, None, None, Some(v)) }
      : v \in InputVersions }
    \cup
    { Body(None, Some("done"), None, None, None, None),
      Body(None, Some("done"), None, None, None, Some(0)),
      Body(None, None, Some(PriorityMin - 1), None, None, Some(1)),
      Body(Some(<<>>), None, None, None, None, Some(1)) }

TargetIds == {NoId} \cup {i \in 1..MaxTasks : i < nextId}

\* ----------------------------------------------------------------- Init
Init ==
    /\ cache = <<>>
    /\ handlers = <<>>
    /\ app = "hono"
    /\ repo \in {"memory", "sqlite"}
    /\ tasks = <<>>
    /\ db = <<>>
    /\ nextId = 1
    /\ nextRef = 1
    /\ clock = 0
    /\ calls = 0
    /\ pc = [p \in Procs |-> "idle"]
    /\ req = [p \in Procs |-> NoReq]
    /\ loc = [p \in Procs |-> NoLoc]
    /\ out = NoOut

\* A call starts.
Start(p) ==
    /\ pc[p] = "idle"
    /\ calls < MaxCalls
    /\ calls' = calls + 1

\* A request ends: its locals are gone and its response is delivered.
Finish(p, request, v0, response) ==
    /\ pc' = [pc EXCEPT ![p] = "idle"]
    /\ req' = [req EXCEPT ![p] = NoReq]
    /\ loc' = [loc EXCEPT ![p] = NoLoc]
    /\ out' = [req |-> request, v0 |-> v0, response |-> response]

Request(op, id, input) == [op |-> op, id |-> id, input |-> input]

\* ------------------------------------------------ POST /tasks, createTask
\* The validator, TaskService.createTask and repository.create: no await
\* separates the write from anything that reads the store.
CreateTask(p, body) ==
    LET parsed == TaskCreateInputSchema(body) IN
    /\ Start(p)
    /\ IF ~IsSome(parsed)
       THEN /\ Finish(p, Request("create", NoId, parsed), None,
                      zValidatorFailure)
            /\ UNCHANGED <<cache, handlers, app, repo, tasks, db, nextId, nextRef, clock>>
       ELSE /\ nextId <= MaxTasks
            /\ \E now \in Nows :
                 IF repo = "memory"
                 THEN /\ tasks' = (nextId :> MemNewTask(nextId, Get(parsed), now, nextRef))
                                   @@ tasks
                      /\ Finish(p, Request("create", nextId, parsed), None,
                                Respond(201, Some(MemNewTask(nextId, Get(parsed), now, nextRef))))
                      /\ nextId' = nextId + 1
                      /\ nextRef' = nextRef + 1
                      /\ clock' = now
                      /\ UNCHANGED <<cache, handlers, app, repo, db>>
                 ELSE IF SqlCheck(SqlNewRow(nextId, Get(parsed), now))
                 THEN /\ db' = (nextId :> SqlNewRow(nextId, Get(parsed), now)) @@ db
                      /\ Finish(p, Request("create", nextId, parsed), None,
                                Respond(201, Some(rowToTask(SqlNewRow(nextId, Get(parsed), now)))))
                      /\ nextId' = nextId + 1
                      /\ clock' = now
                      /\ UNCHANGED <<cache, handlers, app, repo, tasks, nextRef>>
                 ELSE /\ Finish(p, Request("create", NoId, parsed), None,
                                errorHandler(PlainError("CHECK constraint failed")))
                      /\ now = clock
                      /\ UNCHANGED <<cache, handlers, app, repo, tasks, db, nextId, nextRef, clock>>

\* --------------------------------------------- GET /tasks/:id, getTask
GetTask(p, id) ==
    /\ Start(p)
    /\ IF IsSome(findById(id))
       THEN Finish(p, Request("get", id, None), StoredVersion(id), Respond(200, findById(id)))
       ELSE Finish(p, Request("get", id, None), StoredVersion(id),
                   errorHandler(createNotFoundError))
    /\ UNCHANGED <<cache, handlers, app, repo, tasks, db, nextId, nextRef, clock>>

\* ------------------------------------------ PATCH /tasks/:id, updateTask
\* The parsed bodies the validator lets through
UpdateInputs ==
    {Get(TaskUpdateInputSchema(b)) : b \in {c \in UpdateBodies : IsSome(TaskUpdateInputSchema(c))}}

\* The validator, then updateTask up to `await this.repository.exists(taskId)`.
\* The body is fixed when the request is sent, and nothing reads the parsed
\* body before repository.update does; the model draws it at that step, so a
\* request waiting at an await carries its id and its locals only.
UpdateTask(p, id, body) ==
    LET parsed == TaskUpdateInputSchema(body) IN
    /\ Start(p)
    /\ IF ~IsSome(parsed)
       THEN Finish(p, Request("update", id, parsed), StoredVersion(id),
                   zValidatorFailure)
       ELSE /\ pc' = [pc EXCEPT ![p] = "updateTask_exists"]
            /\ req' = [req EXCEPT ![p] = Request("update", id, None)]
            /\ loc' = [loc EXCEPT ![p] = [exists |-> exists(id), current |-> None,
                                          v0 |-> StoredVersion(id)]]
            /\ out' = out
    /\ UNCHANGED <<cache, handlers, app, repo, tasks, db, nextId, nextRef, clock>>

\* updateTask: `if (!exists) throw createNotFoundError(...)`
updateTaskNotFound(found) == ~found

\* updateTask after the await: the existence check, then repository.update.
\* InMemoryTaskRepository.update has no await: it runs to its end here.
\* SqliteTaskRepository.update runs up to `await this.findById(id)`.
UpdateTaskAfterExists(p) ==
    /\ pc[p] = "updateTask_exists"
    /\ UNCHANGED <<cache, handlers, app, repo, nextId, calls>>
    /\ IF updateTaskNotFound(loc[p].exists)
       THEN /\ \E input \in UpdateInputs :
                 Finish(p, Request("update", req[p].id, Some(input)), loc[p].v0,
                        errorHandler(createNotFoundError))
            /\ UNCHANGED <<tasks, db, nextRef, clock>>
       ELSE IF repo = "memory"
       THEN \E input \in UpdateInputs, now \in Nows :
              LET r == MemUpdate(tasks, req[p].id, input, now, nextRef)
                  request == Request("update", req[p].id, Some(input)) IN
              /\ tasks' = r.map
              /\ db' = db
              /\ IF IsSome(r.err)
                 THEN /\ Finish(p, request, loc[p].v0, errorHandler(Get(r.err)))
                      /\ now = clock
                      /\ UNCHANGED <<nextRef, clock>>
                 ELSE /\ Finish(p, request, loc[p].v0, Respond(200, r.task))
                      /\ nextRef' = nextRef + 1
                      /\ clock' = now
       ELSE /\ pc' = [pc EXCEPT ![p] = "update_findById"]
            /\ loc' = [loc EXCEPT ![p].current = SqlFindById(db, req[p].id)]
            /\ UNCHANGED <<tasks, db, nextRef, clock, req, out>>

\* SqliteTaskRepository.update after `await this.findById(id)`: the pre-check,
\* the UPDATE ... WHERE id = ? AND version = ?, and the read of the result
\* (findById runs before its await gives way to anyone).
SqliteUpdateAfterFindById(p) ==
    /\ pc[p] = "update_findById"
    /\ UNCHANGED <<cache, handlers, app, repo, tasks, nextId, nextRef, calls>>
    /\ \E input \in UpdateInputs, now \in Nows :
         LET r == SqlUpdateWrite(db, req[p].id, input, loc[p].current, now)
             request == Request("update", req[p].id, Some(input)) IN
         /\ db' = r.table
         /\ IF IsSome(r.err)
            THEN /\ Finish(p, request, loc[p].v0, errorHandler(Get(r.err)))
                 /\ now = clock
                 /\ clock' = clock
            ELSE /\ Finish(p, request, loc[p].v0, Respond(200, r.task))
                 /\ clock' = now

\* ---------------------------------------- DELETE /tasks/:id, deleteTask
\* deleteTask up to `await this.repository.exists(taskId)`
DeleteTask(p, id) ==
    /\ Start(p)
    /\ pc' = [pc EXCEPT ![p] = "deleteTask_exists"]
    /\ req' = [req EXCEPT ![p] = Request("delete", id, None)]
    /\ loc' = [loc EXCEPT ![p] = [exists |-> exists(id), current |-> None,
                                  v0 |-> StoredVersion(id)]]
    /\ UNCHANGED <<cache, handlers, app, repo, tasks, db, nextId, nextRef, clock, out>>

\* deleteTask: `if (!exists) throw createNotFoundError(...)`
deleteTaskNotFound(found) == ~found

\* deleteTask after the await: the existence check, then repository.delete
DeleteTaskAfterExists(p) ==
    /\ pc[p] = "deleteTask_exists"
    /\ UNCHANGED <<cache, handlers, app, repo, nextId, nextRef, clock, calls>>
    /\ IF deleteTaskNotFound(loc[p].exists)
       THEN /\ Finish(p, req[p], loc[p].v0, errorHandler(createNotFoundError))
            /\ UNCHANGED <<tasks, db>>
       ELSE /\ Finish(p, req[p], loc[p].v0, Respond(204, None))
            /\ IF repo = "memory"
               THEN tasks' = MemDelete(tasks, req[p].id) /\ db' = db
               ELSE db' = SqlDelete(db, req[p].id) /\ tasks' = tasks

\* ------------------------------------------------------------ the caller
\* The caller writes to the task object it was handed, and to its tags array:
\* task.title = "m"; task.tags.length = 0.  The writes land in the object,
\* whoever else holds it.  ref 0 marks an object no one else holds.
Written(t) == [t EXCEPT !.title = <<"m">>, !.tags = <<>>]

SameObject(t, u) == t.ref # 0 /\ t.ref = u.ref

MutateReturned ==
    /\ IsSome(out.response.task)
    /\ Written(Get(out.response.task)) # Get(out.response.task)
    /\ out' = [out EXCEPT !.response.task = Some(Written(Get(out.response.task)))]
    /\ tasks' = [i \in DOMAIN tasks |->
                   IF SameObject(tasks[i], Get(out.response.task)) THEN Written(tasks[i])
                   ELSE tasks[i]]
    /\ UNCHANGED <<cache, handlers, app, repo, db, nextId, nextRef, clock, calls, pc, req, loc>>

Next ==
    \/ \E p \in Procs :
        \/ \E body \in CreateBodies : CreateTask(p, body)
        \/ \E id \in TargetIds : GetTask(p, id)
        \/ \E id \in TargetIds, body \in UpdateBodies : UpdateTask(p, id, body)
        \/ UpdateTaskAfterExists(p)
        \/ SqliteUpdateAfterFindById(p)
        \/ \E id \in TargetIds : DeleteTask(p, id)
        \/ DeleteTaskAfterExists(p)
    \/ MutateReturned

Spec == Init /\ [][Next]_vars

\* ====================================================== GET /tasks, findMany
\* Thrown and returned values of one repository call
Returned(value) == [ok |-> TRUE, value |-> value, error |-> "none"]
Thrown(err) == [ok |-> FALSE, value |-> None, error |-> err.type]

\* String.prototype.toLowerCase, ASCII case folding of LIKE: per character
\* (a tag of the model is one token and folds as a whole)
ToLowerCase(c) == CASE c = "A" -> "a" [] c = "B" -> "b" [] c = "T1" -> "t1" [] OTHER -> c
LowerSeq(s) == [k \in DOMAIN s |-> ToLowerCase(s[k])]

\* String.prototype.includes / Array.prototype.includes
StringIncludes(text, part) ==
    \E k \in 0..(Len(text) - Len(part)) : SubSeq(text, k + 1, k + Len(part)) = part
ArrayIncludes(array, x) == \E k \in DOMAIN array : array[k] = x

\* `if (filters.tag)`: undefined and the empty string are both falsy
TruthyString(o) == IsSome(o) /\ Get(o) # ""
TruthyText(o) == IsSome(o) /\ Get(o) # <<>>

\* Array.prototype.slice(start, end)
Slice(s, start, end) ==
    IF start >= Len(s) THEN <<>>
    ELSE SubSeq(s, start + 1, IF end < Len(s) THEN end ELSE Len(s))

\* `<` on two ISO date strings (code unit order) or on two numbers
DateRank(d) == CASE d = "2025-01-01T00:00:00Z" -> 1 [] d = "2025-12-31T23:59:59Z" -> 2
KeyLess(sortBy, x, y) == IF sortBy = "priority" THEN x < y ELSE DateRank(x) < DateRank(y)
\* `=== null` on a sort key: a priority is a number and never null
KeyIsNull(sortBy, x) == sortBy = "dueDate" /\ x = Null

\* Array.from(this.tasks.values()): a Map iterates in insertion order; set()
\* on a key it holds keeps the key's place, and ids are handed out in
\* increasing order, so insertion order is the order of the ids.
RECURSIVE InIdOrder(_, _)
InIdOrder(map, ids) ==
    IF ids = {} THEN <<>>
    ELSE LET i == CHOOSE j \in ids : \A k \in ids : j <= k
         IN <<map[i]>> \o InIdOrder(map, ids \ {i})
\* A Map whose set() moves an updated key behind all others
MemValuesUpdatedLast(map) ==
    InIdOrder(map, {i \in DOMAIN map : map[i].version = 1})
    \o InIdOrder(map, {i \in DOMAIN map : map[i].version # 1})

MemValues(map) == InIdOrder(map, DOMAIN map)

\* findMany: the three filters
MemFiltered(all, filters) ==
    LET ByStatus(t) == ~TruthyString(filters.status) \/ t.status = Get(filters.status)
        ByTag(t) == ~TruthyString(filters.tag) \/ ArrayIncludes(t.tags, Get(filters.tag))
        BySearch(t) == \/ ~TruthyText(filters.search)
                       \/ StringIncludes(LowerSeq(t.title), LowerSeq(Get(filters.search)))
    IN SelectSeq(SelectSeq(SelectSeq(all, ByStatus), ByTag), BySearch)

\* A comparator whose sortOrder flips the place of the nulls as well
MemCompareNullsFollowOrder(a, b, filters) ==
    LET aVal == IF Get(filters.sortBy) = "priority" THEN a.priority ELSE a.dueDate
        bVal == IF Get(filters.sortBy) = "priority" THEN b.priority ELSE b.dueDate
        comparison == IF KeyIsNull(Get(filters.sortBy), aVal) THEN 1
                      ELSE IF KeyIsNull(Get(filters.sortBy), bVal) THEN -1
                      ELSE IF KeyLess(Get(filters.sortBy), aVal, bVal) THEN -1
                      ELSE IF KeyLess(Get(filters.sortBy), bVal, aVal) THEN 1 ELSE 0
    IN IF filters.sortOrder = Some("desc") THEN -comparison ELSE comparison

\* findMany: the comparator given to tasks.sort
MemCompare(a, b, filters) ==
    LET aVal == IF Get(filters.sortBy) = "priority" THEN a.priority ELSE a.dueDate
        bVal == IF Get(filters.sortBy) = "priority" THEN b.priority ELSE b.dueDate
        comparison == IF KeyLess(Get(filters.sortBy), aVal, bVal) THEN -1
                      ELSE IF KeyLess(Get(filters.sortBy), bVal, aVal) THEN 1 ELSE 0
    IN IF KeyIsNull(Get(filters.sortBy), aVal) THEN 1
       ELSE IF KeyIsNull(Get(filters.sortBy), bVal) THEN -1
       ELSE IF filters.sortOrder = Some("desc") THEN -comparison ELSE comparison

\* Array.prototype.sort: insertion of each element behind the last element it
\* does not compare below (the result of any stable sort when the comparator
\* is an order)
RECURSIVE InsertSorted(_, _, _)
InsertSorted(sorted, t, filters) ==
    IF sorted = <<>> THEN <<t>>
    ELSE IF MemCompare(t, sorted[Len(sorted)], filters) < 0
    THEN InsertSorted(SubSeq(sorted, 1, Len(sorted) - 1), t, filters)
         \o <<sorted[Len(sorted)]>>
    ELSE sorted \o <<t>>
RECURSIVE ArraySort(_, _)
ArraySort(s, filters) ==
    IF s = <<>> THEN <<>>
    ELSE InsertSorted(ArraySort(SubSeq(s, 1, Len(s) - 1), filters), s[Len(s)], filters)

MemSorted(s, filters) == IF IsSome(filters.sortBy) THEN ArraySort(s, filters) ELSE s

\* findMany whose first page starts one page into the matching records
MemFindManyPageFromZero(map, filters) ==
    LET matching == MemSorted(MemFiltered(MemValues(map), filters), filters)
        start == Coalesce(filters.page, 1) * Coalesce(filters.pageSize, 10)
    IN [tasks |-> Slice(matching, start, start + Coalesce(filters.pageSize, 10)),
        total |-> Len(matching)]

\* InMemoryTaskRepository.findMany
MemFindMany(map, filters) ==
    LET matching == MemSorted(MemFiltered(MemValues(map), filters), filters)
        start == (Coalesce(filters.page, 1) - 1) * Coalesce(filters.pageSize, 10)
    IN [tasks |-> Slice(matching, start, start + Coalesce(filters.pageSize, 10)),
        total |-> Len(matching)]


\* The LIKE operator of SQLite: % is any text, _ is any one character, and
\* letters match without regard to case
RECURSIVE Like(_, _)
Like(pattern, text) ==
    IF pattern = <<>> THEN text = <<>>
    ELSE IF Head(pattern) = "%"
    THEN Like(Tail(pattern), text) \/ (text # <<>> /\ Like(pattern, Tail(text)))
    ELSE /\ text # <<>>
         /\ Head(pattern) = "_" \/ ToLowerCase(Head(pattern)) = ToLowerCase(Head(text))
         /\ Like(Tail(pattern), Tail(text))

\* findMany: WHERE status = ? AND tags LIKE ? AND title LIKE ?
SqlWhere(row, filters) ==
    /\ TruthyString(filters.status) => row.status = Get(filters.status)
    /\ TruthyString(filters.tag) =>
          Like(<<"%", "\"", Get(filters.tag), "\"", "%">>, row.tags)
    /\ TruthyText(filters.search) => Like(<<"%">> \o Get(filters.search) \o <<"%">>, row.title)

\* The rows of the table in rowid order: the order of a scan with no ORDER BY
SqlRows(table) == InIdOrder(table, DOMAIN table)

\* ORDER BY column ASC|DESC NULLS LAST: row x may stand before row y
SqlMayPrecede(x, y, filters) ==
    LET xVal == IF Get(filters.sortBy) = "priority" THEN x.priority ELSE x.due_date
        yVal == IF Get(filters.sortBy) = "priority" THEN y.priority ELSE y.due_date
    IN IF KeyIsNull(Get(filters.sortBy), yVal) THEN TRUE
       ELSE IF KeyIsNull(Get(filters.sortBy), xVal) THEN FALSE
       ELSE IF filters.sortOrder = Some("desc")
       THEN ~KeyLess(Get(filters.sortBy), xVal, yVal)
       ELSE ~KeyLess(Get(filters.sortBy), yVal, xVal)

\* The orders in which the matching rows may come: rowid order when there is
\* no ORDER BY; with ORDER BY every order of the key, rows of equal key in
\* any order (SQL leaves it open)
SqlOrderings(rows, filters) ==
    IF ~IsSome(filters.sortBy) THEN {rows}
    ELSE LET perms == {f \in [DOMAIN rows -> DOMAIN rows] :
                          \A a, b \in DOMAIN rows : a # b => f[a] # f[b]}
         IN {s \in {[k \in DOMAIN rows |-> rows[f[k]]] : f \in perms} :
                \A k \in 1..(Len(rows) - 1) : SqlMayPrecede(s[k], s[k + 1], filters)}

\* SqliteTaskRepository.findMany: the results it may return
\* the rows the WHERE clause selects, in rowid order
SqlSelected(table, filters) ==
    LET Where(row) == SqlWhere(row, filters)
    IN SelectSeq(SqlRows(table), Where)

\* LIMIT ? OFFSET ? on the selected rows in the order the statement gives
\* them, and the COUNT(*) of the same WHERE clause
SqlPageOf(ordered, filters) ==
    LET limit == Coalesce(filters.pageSize, 10)
        offset == (Coalesce(filters.page, 1) - 1) * Coalesce(filters.pageSize, 10)
    IN [tasks |-> [k \in DOMAIN Slice(ordered, offset, offset + limit) |->
                      rowToTask(Slice(ordered, offset, offset + limit)[k])],
        total |-> Len(ordered)]

SqlFindMany(table, filters) ==
    {SqlPageOf(ordered, filters) : ordered \in SqlOrderings(SqlSelected(table, filters), filters)}

\* TaskService.getTasks: the page and the pagination metadata
getTasks(found, filters) ==
    [data |-> found.tasks,
     pagination |-> [page |-> Coalesce(filters.page, 1),
                     pageSize |-> Coalesce(filters.pageSize, 10),
                     total |-> found.total,
                     totalPages |-> (found.total + Coalesce(filters.pageSize, 10) - 1)
                                    \div Coalesce(filters.pageSize, 10)]]

\* TaskFiltersSchema --------------------------------------------------------
\* Number(text) of z.coerce.number() on a text of decimal digits: the empty
\* text is 0, a text with any other character is NaN (None here)
Digits == {"0", "1", "2", "3", "4", "5", "6", "7", "8", "9"}
DigitValue(c) == CHOOSE n \in 0..9 : ToString(n) = c
RECURSIVE DecimalValue(_)
DecimalValue(text) ==
    IF text = <<>> THEN 0
    ELSE 10 * DecimalValue(SubSeq(text, 1, Len(text) - 1)) + DigitValue(text[Len(text)])
Number(text) ==
    IF \E k \in DOMAIN text : text[k] \notin Digits THEN None ELSE Some(DecimalValue(text))

\* pageSize without its upper limit
ZodPageSizeOkNoMax(n) == IsSome(n) /\ Get(n) > 0

PageSizeMax == 100
DefaultPage == 1
DefaultPageSize == 10
ZodPageOk(n) == IsSome(n) /\ Get(n) > 0                        \* .int().positive()
ZodPageSizeOk(n) == IsSome(n) /\ Get(n) > 0 /\ Get(n) <= PageSizeMax

\* TaskFiltersSchema: None when the query is rejected, else the parsed filters
TaskFiltersSchema(query) ==
    IF \/ IsSome(query.status) /\ ~ZodStatusOk(Get(query.status))
       \/ IsSome(query.sortBy) /\ Get(query.sortBy) \notin {"priority", "dueDate"}
       \/ IsSome(query.sortOrder) /\ Get(query.sortOrder) \notin {"asc", "desc"}
       \/ IsSome(query.page) /\ ~ZodPageOk(Number(Get(query.page)))
       \/ IsSome(query.pageSize) /\ ~ZodPageSizeOk(Number(Get(query.pageSize)))
    THEN None
    ELSE Some([status |-> query.status,
               tag |-> query.tag,
               search |-> query.search,
               sortBy |-> query.sortBy,
               sortOrder |-> IF IsSome(query.sortOrder) THEN query.sortOrder ELSE Some("asc"),
               page |-> IF IsSome(query.page) THEN Number(Get(query.page))
                        ELSE Some(DefaultPage),
               pageSize |-> IF IsSome(query.pageSize) THEN Number(Get(query.pageSize))
                            ELSE Some(DefaultPageSize)])

\* ------------------------------- the two repositories run side by side
\* One TaskService over an InMemoryTaskRepository (tasks) and one over a
\* SqliteTaskRepository (db) receive the same calls one after the other; out
\* holds the last call and what each repository answered.  The k-th id
\* generated on either side is written k.
Query(status, tag, search, sortBy, sortOrder, page, pageSize) ==
    [status |-> status, tag |-> tag, search |-> search, sortBy |-> sortBy,
     sortOrder |-> sortOrder, page |-> page, pageSize |-> pageSize]

ListBodies ==
    { Body(Some(<<"a">>), None, None, None, None, None),
      Body(Some(<<"A", "b">>), Some("doing"), Some(5), Some("2025-12-31T23:59:59Z"),
           Some(<<"t1", "t2">>), None),
      Body(Some(<<"b">>), None, Some(1), Some("2025-01-01T00:00:00Z"), Some(<<"T1">>), None) }

ListUpdateBodies ==
    { Body(None, Some("done"), None, Some(Null), None, Some(v)) : v \in InputVersions }

Queries ==
    { Query(None, None, None, None, None, None, None),
      Query(None, None, None, None, None, Some(<<"3">>), Some(<<"1">>)),
      Query(Some("todo"), None, None, None, None, None, None),
      Query(None, Some("t1"), None, None, None, None, None),
      Query(None, Some("T1"), None, None, None, None, None),
      Query(None, None, Some(<<"a">>), None, None, None, None),
      Query(None, None, Some(<<"_">>), None, None, None, None),
      Query(Some("todo"), Some("T1"), Some(<<"B">>), None, None, None, None),
      Query(None, Some("t2"), None, None, None, Some(<<"2">>), Some(<<"1">>)),
      Query(None, None, None, Some("dueDate"), Some("asc"), None, None),
      Query(None, None, None, Some("priority"), None, Some(<<"2">>), Some(<<"1">>)) }
    \cup
    { Query(None, None, None, None, None, Some(<<page>>), Some(<<pageSize>>)) :
         page \in {"1", "2"}, pageSize \in {"1", "2"} }
    \cup
    { Query(None, None, None, Some(sortBy), sortOrder, None, None) :
         sortBy \in {"priority", "dueDate"}, sortOrder \in {None, Some("desc")} }

ListIds == {NoId} \cup {i \in 1..MaxWrites : i < nextId}

Call(op, id, input) == [op |-> op, id |-> id, input |-> input]
NoListOut == [call |-> Call("none", NoId, None), mem |-> Returned(None), sql |-> Returned(None)]

ListInit ==
    /\ cache = <<>>
    /\ handlers = <<>>
    /\ app = "hono"
    /\ repo = "both"
    /\ tasks = <<>>
    /\ db = <<>>
    /\ nextId = 1
    /\ nextRef = 1
    /\ clock = 0
    /\ calls = 0
    /\ pc = [p \in Procs |-> "idle"]
    /\ req = [p \in Procs |-> NoReq]
    /\ loc = [p \in Procs |-> NoLoc]
    /\ out = NoListOut

\* repository.create(input) on both sides
ListCreate(body) ==
    LET parsed == TaskCreateInputSchema(body)
        task == MemNewTask(nextId, Get(parsed), clock, nextRef)
        row == SqlNewRow(nextId, Get(parsed), clock)
    IN /\ IsSome(parsed)
       /\ calls < MaxWrites
       /\ calls' = calls + 1
       /\ tasks' = (nextId :> task) @@ tasks
       /\ db' = IF SqlCheck(row) THEN (nextId :> row) @@ db ELSE db
       /\ out' = [call |-> Call("create", nextId, parsed),
                  mem |-> Returned(Some(task)),
                  sql |-> IF SqlCheck(row) THEN Returned(Some(rowToTask(row)))
                          ELSE Thrown(PlainError("CHECK constraint failed"))]
       /\ nextId' = nextId + 1
       /\ nextRef' = nextRef + 1
       /\ UNCHANGED <<cache, handlers, app, repo, clock, pc, req, loc>>

\* repository.update(id, input) on both sides
ListUpdate(id, body) ==
    LET parsed == TaskUpdateInputSchema(body)
        m == MemUpdate(tasks, id, Get(parsed), clock, nextRef)
        q == SqlUpdateWrite(db, id, Get(parsed), SqlFindById(db, id), clock)
    IN /\ IsSome(parsed)
       /\ calls < MaxWrites
       /\ calls' = calls + 1
       /\ tasks' = m.map
       /\ db' = q.table
       /\ out' = [call |-> Call("update", id, parsed),
                  mem |-> IF IsSome(m.err) THEN Thrown(Get(m.err)) ELSE Returned(m.task),
                  sql |-> IF IsSome(q.err) THEN Thrown(Get(q.err)) ELSE Returned(q.task)]
       /\ nextRef' = IF IsSome(m.err) THEN nextRef ELSE nextRef + 1
       /\ UNCHANGED <<cache, handlers, app, repo, nextId, clock, pc, req, loc>>

\* repository.delete(id) on both sides
ListDelete(id) ==
    /\ calls < MaxWrites
    /\ calls' = calls + 1
    /\ tasks' = MemDelete(tasks, id)
    /\ db' = SqlDelete(db, id)
    /\ out' = [call |-> Call("delete", id, None), mem |-> Returned(None), sql |-> Returned(None)]
    /\ UNCHANGED <<cache, handlers, app, repo, nextId, nextRef, clock, pc, req, loc>>

\* repository.findById(id) and repository.exists(id) on both sides
ListFindById(id) ==
    /\ out' = [call |-> Call("findById", id, None),
               mem |-> Returned(MemFindById(tasks, id)),
               sql |-> Returned(SqlFindById(db, id))]
    /\ UNCHANGED <<cache, handlers, app, repo, tasks, db, nextId, nextRef, clock, calls, pc, req, loc>>

ListExists(id) ==
    /\ out' = [call |-> Call("exists", id, None),
               mem |-> Returned(Some(MemExists(tasks, id))),
               sql |-> Returned(Some(SqlExists(db, id)))]
    /\ UNCHANGED <<cache, handlers, app, repo, tasks, db, nextId, nextRef, clock, calls, pc, req, loc>>

\* TaskService.getTask(id) on both sides: findById, NotFound when it is null
ListGetTask(id) ==
    /\ out' = [call |-> Call("getTask", id, None),
               mem |-> IF IsSome(MemFindById(tasks, id))
                       THEN Returned(MemFindById(tasks, id))
                       ELSE Thrown(createNotFoundError),
               sql |-> IF IsSome(SqlFindById(db, id))
                       THEN Returned(SqlFindById(db, id))
                       ELSE Thrown(createNotFoundError)]
    /\ UNCHANGED <<cache, handlers, app, repo, tasks, db, nextId, nextRef, clock, calls, pc, req, loc>>

\* GET /tasks: the query validator, then getTasks on both sides
ListGetTasks(query) ==
    LET parsed == TaskFiltersSchema(query) IN
    /\ IsSome(parsed)
    /\ \E found \in SqlFindMany(db, Get(parsed)) :
          out' = [call |-> Call("getTasks", NoId, parsed),
                  mem |-> Returned(Some(getTasks(MemFindMany(tasks, Get(parsed)), Get(parsed)))),
                  sql |-> Returned(Some(getTasks(found, Get(parsed))))]
    /\ UNCHANGED <<cache, handlers, app, repo, tasks, db, nextId, nextRef, clock, calls, pc, req, loc>>

ListNext ==
    \/ \E body \in ListBodies : ListCreate(body)
    \/ \E id \in ListIds, body \in ListUpdateBodies : ListUpdate(id, body)
    \/ \E id \in ListIds : ListDelete(id)
    \/ \E id \in ListIds : ListFindById(id)
    \/ \E id \in ListIds : ListExists(id)
    \/ \E id \in ListIds : ListGetTask(id)
    \/ \E query \in Queries : ListGetTasks(query)

ListSpec == ListInit /\ [][ListNext]_vars

\* ================================================================ claims
\* Caller p's updateTask / deleteTask call ends in this step; out' is then
\* its request and its response.
UpdateEnds(p) == pc[p] \in {"updateTask_exists", "update_findById"} /\ pc'[p] = "idle"
DeleteEnds(p) == pc[p] = "deleteTask_exists" /\ pc'[p] = "idle"

\* The response delivered last answers an update that passed validation
UpdateAnswered == out.req.op = "update" /\ IsSome(out.req.input)
SuppliedVersion == Get(out.req.input).version

\* C1: concurrent updates of one existing id that all supply the version N it
\* had when they were issued, with no delete of that id: each call ends as the
\* one success (the stored version is then N+1) or as a Conflict behind the
\* winner; nothing else, and no second success (it would leave N+2).
C1_ConflictExclusivity ==
    (UpdateAnswered /\ out.v0 = Some(SuppliedVersion) /\ out.req.id \in StoredIds)
    => \/ /\ out.response.kind = "ok"
          /\ Stored(out.req.id).version = SuppliedVersion + 1
          /\ Get(out.response.task).version = SuppliedVersion + 1
       \/ /\ out.response.kind = "CONFLICT"
          /\ Stored(out.req.id).version > SuppliedVersion

\* C2: a created task has version 1; a successful update raises the version of
\* its id by exactly 1; the version of a stored record never decreases, and a
\* failed update leaves every version as it was.
C2_VersionStep ==
    /\ \A i \in StoredIds' \ StoredIds : Stored(i)'.version = 1
    /\ \A i \in StoredIds' \cap StoredIds :
          Stored(i)'.version \in {Stored(i).version, Stored(i).version + 1}
    /\ \A p \in Procs :
          UpdateEnds(p) =>
             IF out'.response.kind = "ok"
             THEN \A i \in {req[p].id} :
                     /\ i \in StoredIds /\ i \in StoredIds'
                     /\ Stored(i)'.version = Stored(i).version + 1
             ELSE \A i \in StoredIds : i \in StoredIds' /\ Stored(i)'.version = Stored(i).version
C2_VersionMonotonic == [][C2_VersionStep]_vars
C2_Witness ==
    /\ UpdateAnswered /\ out.response.kind = "ok"
    /\ out.req.id \in StoredIds /\ Stored(out.req.id).version = 2

\* C3: every Conflict on a record that is still stored reports that record's
\* current version, whichever path raised it.
C3_ConflictReportsCurrentVersion ==
    (UpdateAnswered /\ out.response.kind = "CONFLICT" /\ out.req.id \in StoredIds)
    => out.response.message.expected = Some(Stored(out.req.id).version)

\* C4: when repository.update decides on an update whose supplied version
\* differs from the stored version of its record, the answer is Conflict with
\* HTTP 409 and no stored record changes in any field.
C4_MismatchStep ==
    \A p \in Procs :
       (/\ UpdateEnds(p)
        /\ req[p].id \in StoredIds
        /\ Stored(req[p].id).version # Get(out'.req.input).version)
       => /\ out'.response.kind = "CONFLICT"
          /\ out'.response.status = 409
          /\ tasks' = tasks /\ db' = db
C4_MismatchRejected == [][C4_MismatchStep]_vars
C4_Witness ==
    /\ UpdateAnswered /\ out.response.kind = "CONFLICT" /\ out.response.status = 409
    /\ out.req.id \in StoredIds
    /\ Stored(out.req.id).version # SuppliedVersion

\* C5: a successful update sets each field present in the input to the value
\* supplied (a null dueDate clears the date), keeps each absent field, keeps id
\* and createdAt, raises version by one and sets updatedAt; nothing else.
C5_UpdateStep ==
    \A p \in Procs :
       (UpdateEnds(p) /\ out'.response.kind = "ok")
       => \A i \in {req[p].id} : \A input \in {Get(out'.req.input)} :
             /\ i \in StoredIds /\ i \in StoredIds'
             /\ Stored(i)'.title = (IF IsSome(input.title) THEN Get(input.title)
                                    ELSE Stored(i).title)
             /\ Stored(i)'.status = (IF IsSome(input.status) THEN Get(input.status)
                                     ELSE Stored(i).status)
             /\ Stored(i)'.priority = (IF IsSome(input.priority) THEN Get(input.priority)
                                       ELSE Stored(i).priority)
             /\ Stored(i)'.dueDate = (IF IsSome(input.dueDate) THEN Get(input.dueDate)
                                      ELSE Stored(i).dueDate)
             /\ Stored(i)'.tags = (IF IsSome(input.tags) THEN Get(input.tags)
                                   ELSE Stored(i).tags)
             /\ Stored(i)'.id = Stored(i).id
             /\ Stored(i)'.createdAt = Stored(i).createdAt
             /\ Stored(i)'.version = Stored(i).version + 1
             /\ Stored(i)'.updatedAt = clock'
C5_PartialUpdate == [][C5_UpdateStep]_vars
\* a date cleared by an explicit null, a status the input did not mention kept
C5_Witness ==
    /\ UpdateAnswered /\ out.response.kind = "ok"
    /\ Get(out.req.input).dueDate = Some(Null) /\ ~IsSome(Get(out.req.input).status)
    /\ out.req.id \in StoredIds
    /\ Stored(out.req.id).dueDate = Null
    /\ Stored(out.req.id).status = "doing"
    /\ Stored(out.req.id).createdAt # Stored(out.req.id).updatedAt

\* C6: an updateTask call whose id is deleted while the call is in flight
\* still ends as the updated task, NotFound or Conflict, never as an
\* unclassified error answered with HTTP 500.
C6_UpdateOutcomeClassified ==
    (UpdateAnswered /\ IsSome(out.v0) /\ out.req.id \notin StoredIds)
    => out.response.kind \in {"ok", "NOT_FOUND", "CONFLICT"}

\* C7: an updateTask call on an id with no record when it is called ends as
\* NotFound with HTTP 404 whatever version it supplies, and changes nothing.
C7_AbsentStep ==
    \A p \in Procs :
       (UpdateEnds(p) /\ ~IsSome(loc[p].v0))
       => /\ out'.response.kind = "NOT_FOUND"
          /\ out'.response.status = 404
          /\ tasks' = tasks /\ db' = db
C7_AbsentIsNotFound == [][C7_AbsentStep]_vars
\* the id had a record once, and the version supplied is not the initial one
C7_Witness ==
    /\ UpdateAnswered /\ ~IsSome(out.v0) /\ out.response.kind = "NOT_FOUND"
    /\ out.req.id # NoId /\ SuppliedVersion = 2

\* C8: when deleteTask succeeds its id is absent for exists and findById, and
\* stays absent; a deleteTask called on an absent id ends as NotFound; a
\* repository delete that finds its id gone raises nothing and changes no
\* record; no delete changes a record of another id.
C8_DeleteStep ==
    /\ \A i \in 1..MaxTasks : (i < nextId /\ i \notin StoredIds) => i \notin StoredIds'
    /\ \A p \in Procs :
          DeleteEnds(p) =>
             \A i \in {req[p].id} :
                /\ ~IsSome(loc[p].v0) =>
                      /\ out'.response.kind = "NOT_FOUND" /\ out'.response.status = 404
                      /\ tasks' = tasks /\ db' = db
                /\ IsSome(loc[p].v0) =>
                      /\ out'.response.kind = "ok" /\ out'.response.status = 204
                      /\ ~exists(i)' /\ ~IsSome(findById(i)')
                      /\ StoredIds' = StoredIds \ {i}
                      /\ \A j \in StoredIds' : Stored(j)' = Stored(j)
                      /\ i \notin StoredIds => (tasks' = tasks /\ db' = db)
C8_DeleteSemantics == [][C8_DeleteStep]_vars
\* a further deleteTask on an id whose record a deleteTask removed
C8_Witness ==
    /\ out.req.op = "delete" /\ out.req.id # NoId /\ ~IsSome(out.v0)
    /\ out.response.kind = "NOT_FOUND"
    /\ out.req.id \notin StoredIds /\ ~exists(out.req.id)

\* C9: every stored task has a title of 1 to 120 characters, a status of the
\* enumeration, a priority of 1 to 5 and a version of at least 1.
C9_StoredTasksValid ==
    \A i \in StoredIds :
       /\ Len(Stored(i).title) >= TitleMin /\ Len(Stored(i).title) <= TitleMax
       /\ Stored(i).status \in Statuses
       /\ Stored(i).priority >= PriorityMin /\ Stored(i).priority <= PriorityMax
       /\ Stored(i).version >= 1

\* C10: a write by the caller to a task it was handed, or to its tags, changes
\* nothing that findById returns afterwards.
C10_MutateStep ==
    (/\ IsSome(out.response.task) /\ IsSome(out'.response.task)
     /\ out'.response.task # out.response.task
     /\ out'.req = out.req /\ calls' = calls /\ pc' = pc)
    => \A i \in StoredIds : findById(i)' = findById(i)
C10_ResultsAreCopies == [][C10_MutateStep]_vars

\* C11: a create that is carried out stores and returns a record under an id
\* that no record has or had, with version 1, createdAt = updatedAt, the
\* fields of the body, and status todo, priority 3, dueDate null, tags [] for
\* the fields the body omits; every record already stored stays as it was.
C11_CreateStep ==
    (nextId' # nextId) =>
       \A i \in {nextId} :
          /\ i \notin StoredIds /\ StoredIds' = StoredIds \cup {i}
          /\ \A j \in 1..MaxTasks : (j < nextId) => j # i
          /\ \A j \in StoredIds : Stored(j)' = Stored(j)
          /\ out'.req.op = "create" /\ out'.response.kind = "ok"
          /\ out'.response.status = 201
          /\ out'.response.task = Some(Stored(i)')
          /\ Stored(i)'.id = i
          /\ Stored(i)'.version = 1
          /\ Stored(i)'.createdAt = Stored(i)'.updatedAt
          /\ \A body \in CreateBodies :
                (TaskCreateInputSchema(body) = out'.req.input) =>
                   /\ Stored(i)'.title = Trim(Get(body.title))
                   /\ Stored(i)'.status = (IF IsSome(body.status) THEN Get(body.status)
                                           ELSE "todo")
                   /\ Stored(i)'.priority = (IF IsSome(body.priority) THEN Get(body.priority)
                                             ELSE DefaultPriority)
                   /\ Stored(i)'.dueDate = (IF IsSome(body.dueDate) THEN Get(body.dueDate)
                                            ELSE Null)
                   /\ Stored(i)'.tags = (IF IsSome(body.tags) THEN Get(body.tags)
                                         ELSE <<>>)
C11_CreateContract == [][C11_CreateStep]_vars
\* a second record created from a body with a title only, the first one kept
C11_Witness ==
    /\ out.req.op = "create" /\ out.response.kind = "ok" /\ out.req.id = 2
    /\ StoredIds = {1, 2}
    /\ Stored(1).status = "doing"
    /\ Stored(2).status = "todo" /\ Stored(2).priority = DefaultPriority
    /\ Stored(2).dueDate = Null /\ Stored(2).tags = <<>>

\* ------------------------------------------------- the HTTP boundary
\* One application, hono (section-a) or express, serves its routes to one
\* client, one request after the other; out holds the last request and the
\* response it was given.
API_TOKEN == <<"k">>                               \* process.env.API_TOKEN
Bearer == <<"B", "e", "a", "r", "e", "r", " ">>
StartsWith(text, prefix) ==
    Len(text) >= Len(prefix) /\ SubSeq(text, 1, Len(prefix)) = prefix
Substring(text, start) == SubSeq(text, start + 1, Len(text))

\* authenticate that compares no token: any 'Bearer <token>' passes
authenticateAnyToken(header) ==
    IF ~IsSome(header) \/ Get(header) = <<>> \/ ~StartsWith(Get(header), Bearer)
    THEN Some(createUnauthorizedError(
                 Message("Missing or invalid Authorization header", None, None)))
    ELSE None

\* authenticate: the error it answers with, or None when it calls next()
authenticate(header) ==
    IF ~IsSome(header) \/ Get(header) = <<>> \/ ~StartsWith(Get(header), Bearer)
    THEN Some(createUnauthorizedError(
                 Message("Missing or invalid Authorization header", None, None)))
    ELSE IF Substring(Get(header), 7) # API_TOKEN
    THEN Some(createUnauthorizedError(Message("Invalid API token", None, None)))
    ELSE None

\* The routes that name authenticate among their middlewares
Authenticated ==
    IF app = "hono" THEN {"PATCH", "DELETE"} ELSE {"POST", "PATCH", "DELETE"}
Denied(method, header) ==
    IF method \in Authenticated THEN authenticate(header) ELSE None

\* express: res.status(error.statusCode).json(error.toProblemDetail(...)) in
\* authenticate, validate and validateQuery, and the express errorHandler
expressAnswer(err) ==
    [kind |-> err.type, status |-> err.statusCode, task |-> None, message |-> err.message,
     body |-> toProblemDetail(err)]
expressErrorHandler(err) ==
    IF IsApplicationError(err) THEN expressAnswer(err) ELSE errorHandler(err)

\* What a thrown error, a refused credential and a failed parse are answered
OnError(err) == IF app = "hono" THEN errorHandler(err) ELSE expressErrorHandler(err)
OnDenied(err) == IF app = "hono" THEN errorHandler(err) ELSE expressAnswer(err)
OnInvalid == IF app = "hono" THEN zValidatorFailure ELSE expressAnswer(createValidationError)

\* c.json(result, 200) of GET /tasks
RespondPage ==
    [kind |-> "ok", status |-> 200, task |-> None, message |-> NoMessage,
     body |-> JsonBody("page")]

Headers ==
    { None,
      Some(<<>>),
      Some(<<"B", "a", "s", "i", "c", " ", "k">>),
      Some(Bearer \o <<"x">>),
      Some(Bearer \o API_TOKEN) }
HttpCreateBodies ==
    { Body(Some(<<"a">>), None, None, None, None, None),
      Body(Some(<<" ">>), None, None, None, None, None),
      Body(Some(<<>>), None, None, None, None, None) }
HttpUpdateBodies ==
    { Body(None, Some("done"), None, None, None, Some(1)),
      Body(Some(<<" ">>), None, None, None, None, Some(1)),
      Body(None, Some("done"), None, None, None, None) }
HttpQueries ==
    { Query(None, None, None, None, None, None, None),
      Query(None, None, None, None, None, Some(<<"0">>), None) }

HttpRequest(method, id, header, body) ==
    [method |-> method, id |-> id, header |-> header, body |-> body]
NoHttpOut == [request |-> HttpRequest("none", NoId, None, None), response |-> NoResponse]

HttpInit ==
    /\ cache = <<>>
    /\ handlers = <<>>
    /\ app \in {"hono", "express"}
    /\ repo \in {"memory", "sqlite"}
    /\ tasks = <<>>
    /\ db = <<>>
    /\ nextId = 1
    /\ nextRef = 1
    /\ clock = 0
    /\ calls = 0
    /\ pc = [p \in Procs |-> "idle"]
    /\ req = [p \in Procs |-> NoReq]
    /\ loc = [p \in Procs |-> NoLoc]
    /\ out = NoHttpOut

\* A request is refused by authenticate or by the validator: the handler
\* does not run
HttpRefused(request, response) ==
    /\ out' = [request |-> request, response |-> response]
    /\ UNCHANGED <<cache, handlers, app, repo, tasks, db, nextId, nextRef, clock, calls, pc, req, loc>>

\* POST /tasks
HttpPost(header, body) ==
    LET parsed == TaskCreateInputSchema(body)
        denied == Denied("POST", header)
        request == HttpRequest("POST", NoId, header, Some(body))
        task == MemNewTask(nextId, Get(parsed), clock, nextRef)
        row == SqlNewRow(nextId, Get(parsed), clock)
    IN /\ calls < MaxWrites
       /\ IF IsSome(denied) THEN HttpRefused(request, OnDenied(Get(denied)))
          ELSE IF ~IsSome(parsed) THEN HttpRefused(request, OnInvalid)
          ELSE IF repo = "sqlite" /\ ~SqlCheck(row)
          THEN HttpRefused(request, OnError(PlainError("CHECK constraint failed")))
          ELSE /\ tasks' = IF repo = "memory" THEN (nextId :> task) @@ tasks ELSE tasks
               /\ db' = IF repo = "sqlite" THEN (nextId :> row) @@ db ELSE db
               /\ out' = [request |-> request,
                          response |-> Respond(201, IF repo = "memory" THEN Some(task)
                                                    ELSE Some(rowToTask(row)))]
               /\ nextId' = nextId + 1
               /\ nextRef' = nextRef + 1
               /\ calls' = calls + 1
               /\ UNCHANGED <<cache, handlers, app, repo, clock, pc, req, loc>>

\* GET /tasks/:id
HttpGet(id) ==
    HttpRefused(HttpRequest("GET", id, None, None),
                IF IsSome(findById(id)) THEN Respond(200, findById(id))
                ELSE OnError(createNotFoundError))

\* GET /tasks
HttpList(query) ==
    HttpRefused(HttpRequest("LIST", NoId, None, Some(query)),
                IF IsSome(TaskFiltersSchema(query)) THEN RespondPage ELSE OnInvalid)

\* PATCH /tasks/:id
HttpPatch(header, id, body) ==
    LET parsed == TaskUpdateInputSchema(body)
        denied == Denied("PATCH", header)
        request == HttpRequest("PATCH", id, header, Some(body))
        m == MemUpdate(tasks, id, Get(parsed), clock, nextRef)
        q == SqlUpdateWrite(db, id, Get(parsed), SqlFindById(db, id), clock)
        err == IF repo = "memory" THEN m.err ELSE q.err
    IN /\ calls < MaxWrites
       /\ IF IsSome(denied) THEN HttpRefused(request, OnDenied(Get(denied)))
          ELSE IF ~IsSome(parsed) THEN HttpRefused(request, OnInvalid)
          ELSE IF updateTaskNotFound(exists(id))
          THEN HttpRefused(request, OnError(createNotFoundError))
          ELSE IF IsSome(err) THEN HttpRefused(request, OnError(Get(err)))
          ELSE /\ tasks' = IF repo = "memory" THEN m.map ELSE tasks
               /\ db' = IF repo = "sqlite" THEN q.table ELSE db
               /\ out' = [request |-> request,
                          response |-> Respond(200, IF repo = "memory" THEN m.task
                                                    ELSE q.task)]
               /\ nextRef' = nextRef + 1
               /\ calls' = calls + 1
               /\ UNCHANGED <<cache, handlers, app, repo, nextId, clock, pc, req, loc>>

\* DELETE /tasks/:id
HttpDelete(header, id) ==
    LET denied == Denied("DELETE", header)
        request == HttpRequest("DELETE", id, header, None)
    IN /\ calls < MaxWrites
       /\ IF IsSome(denied) THEN HttpRefused(request, OnDenied(Get(denied)))
          ELSE IF deleteTaskNotFound(exists(id))
          THEN HttpRefused(request, OnError(createNotFoundError))
          ELSE /\ tasks' = IF repo = "memory" THEN MemDelete(tasks, id) ELSE tasks
               /\ db' = IF repo = "sqlite" THEN SqlDelete(db, id) ELSE db
               /\ out' = [request |-> request, response |-> Respond(204, None)]
               /\ calls' = calls + 1
               /\ UNCHANGED <<cache, handlers, app, repo, nextId, nextRef, clock, pc, req, loc>>

HttpNext ==
    \/ \E header \in Headers, body \in HttpCreateBodies : HttpPost(header, body)
    \/ \E id \in ListIds : HttpGet(id)
    \/ \E query \in HttpQueries : HttpList(query)
    \/ \E header \in Headers, id \in ListIds, body \in HttpUpdateBodies :
          HttpPatch(header, id, body)
    \/ \E header \in Headers, id \in ListIds : HttpDelete(header, id)

HttpSpec == HttpInit /\ [][HttpNext]_vars

\* ------------------------------------------------ the request schemas
\* One input, a JSON body or a query string, is given to the schema of its
\* route; out holds the input and, once parsed, the result.
TitlesIn ==
    {None, Some(<<>>), Some(<<" ">>), Some(<<"a">>), Some(Rep("x", TitleMax)),
     Some(Rep("x", TitleMax + 1))}
StatusesIn == {None, Some("todo"), Some("doing"), Some("done"), Some("archived")}
PrioritiesIn == {None} \cup {Some(n) : n \in (PriorityMin - 1)..(PriorityMax + 1)}
DueDatesIn == {None, Some(Null), Some("2025-01-01T00:00:00Z"), Some("2025-13-32")}
TagsIn == {None, Some(<<>>), Some(<<"t1">>)}
VersionsIn == {None, Some(-1), Some(0), Some(1), Some(2)}
SortBysIn == {None, Some("priority"), Some("dueDate"), Some("title")}
SortOrdersIn == {None, Some("asc"), Some("desc"), Some("up")}
PagesIn ==
    {None, Some(<<>>), Some(<<"0">>), Some(<<"1">>), Some(<<"2">>), Some(<<"x">>),
     Some(<<"1", "0">>), Some(<<"-", "1">>)}
PageSizesIn ==
    {None, Some(<<"0">>), Some(<<"1">>), Some(<<"1", "0", "0">>), Some(<<"1", "0", "1">>),
     Some(<<"x">>)}

CreateInputs ==
    {Body(t, s, p, d, g, None) :
        t \in TitlesIn, s \in StatusesIn, p \in PrioritiesIn, d \in DueDatesIn, g \in TagsIn}
PatchInputs ==
    {Body(t, s, p, d, None, v) :
        t \in TitlesIn, s \in StatusesIn, p \in PrioritiesIn, d \in DueDatesIn,
        v \in VersionsIn}
QueryInputs ==
    {Query(s, None, None, b, o, p, z) :
        s \in {None, Some("todo"), Some("archived")}, b \in SortBysIn, o \in SortOrdersIn,
        p \in PagesIn, z \in PageSizesIn}

Unparsed(schema, raw) == [schema |-> schema, raw |-> raw, parsed |-> None, done |-> FALSE]
Parsed(schema, raw, parsed) ==
    [schema |-> schema, raw |-> raw, parsed |-> parsed, done |-> TRUE]

ValidInit ==
    /\ cache = <<>>
    /\ handlers = <<>>
    /\ app = "hono"
    /\ repo = "memory"
    /\ tasks = <<>>
    /\ db = <<>>
    /\ nextId = 1
    /\ nextRef = 1
    /\ clock = 0
    /\ calls = 0
    /\ pc = [p \in Procs |-> "idle"]
    /\ req = [p \in Procs |-> NoReq]
    /\ loc = [p \in Procs |-> NoLoc]
    /\ out \in {Unparsed("create", raw) : raw \in CreateInputs}
            \cup {Unparsed("update", raw) : raw \in PatchInputs}
            \cup {Unparsed("filters", raw) : raw \in QueryInputs}

\* TaskCreateInputSchema, TaskUpdateInputSchema and TaskFiltersSchema at work
ParseCreate ==
    /\ ~out.done /\ out.schema = "create"
    /\ out' = Parsed("create", out.raw, TaskCreateInputSchema(out.raw))
    /\ UNCHANGED <<cache, handlers, app, repo, tasks, db, nextId, nextRef, clock, calls, pc, req, loc>>
ParseUpdate ==
    /\ ~out.done /\ out.schema = "update"
    /\ out' = Parsed("update", out.raw, TaskUpdateInputSchema(out.raw))
    /\ UNCHANGED <<cache, handlers, app, repo, tasks, db, nextId, nextRef, clock, calls, pc, req, loc>>
ParseFilters ==
    /\ ~out.done /\ out.schema = "filters"
    /\ out' = Parsed("filters", out.raw, TaskFiltersSchema(out.raw))
    /\ UNCHANGED <<cache, handlers, app, repo, tasks, db, nextId, nextRef, clock, calls, pc, req, loc>>

ValidNext == ParseCreate \/ ParseUpdate \/ ParseFilters

ValidSpec == ValidInit /\ [][ValidNext]_vars

\* ------------------------------------------------ claims on GET /tasks
\* The call answered last is getTasks; its filters and the two answers
GetTasksAnswered == out.call.op = "getTasks"
AnsweredFilters == Get(out.call.input)
MemPage == Get(out.mem.value)
SqlPage == Get(out.sql.value)

\* A record satisfies every filter that the query supplies
Matches(t, filters) ==
    /\ IsSome(filters.status) => t.status = Get(filters.status)
    /\ IsSome(filters.tag) => \E k \in DOMAIN t.tags : t.tags[k] = Get(filters.tag)
    /\ IsSome(filters.search) =>
          \E k \in 0..(Len(t.title) - Len(Get(filters.search))) :
             \A n \in 1..Len(Get(filters.search)) :
                ToLowerCase(t.title[k + n]) = ToLowerCase(Get(filters.search)[n])
MemMatching(filters) == {i \in DOMAIN tasks : Matches(tasks[i], filters)}
SqlMatching(filters) == {i \in DOMAIN db : Matches(rowToTask(db[i]), filters)}

\* total = K, totalPages = ceil(K / P), P records on every page before the
\* last and K mod P (or P) on the last
PaginationOf(page, K) ==
    LET P == page.pagination.pageSize
        last == page.pagination.totalPages
    IN /\ page.pagination.total = K
       /\ last * P >= K /\ (K > 0 => (last - 1) * P < K) /\ (K = 0 => last = 0)
       /\ page.pagination.page < last => Len(page.data) = P
       /\ page.pagination.page = last =>
             Len(page.data) = (IF K % P = 0 THEN P ELSE K % P)

\* C12: for the K stored records that match the filters and pageSize P,
\* getTasks reports total = K and totalPages = ceil(K/P), every page before
\* the last holds P records and the last holds K mod P, or P when that is 0.
C12_Pagination ==
    GetTasksAnswered =>
       /\ PaginationOf(MemPage, Cardinality(MemMatching(AnsweredFilters)))
       /\ PaginationOf(SqlPage, Cardinality(SqlMatching(AnsweredFilters)))

\* C13: every record getTasks returns satisfies every supplied filter, and
\* total is the number of stored records that satisfy them all.
C13_FilterComposition ==
    GetTasksAnswered =>
       /\ \A k \in DOMAIN MemPage.data : Matches(MemPage.data[k], AnsweredFilters)
       /\ MemPage.pagination.total = Cardinality(MemMatching(AnsweredFilters))
       /\ \A k \in DOMAIN SqlPage.data : Matches(SqlPage.data[k], AnsweredFilters)
       /\ SqlPage.pagination.total = Cardinality(SqlMatching(AnsweredFilters))

\* x may stand directly before y in a list sorted by the key: null dates
\* last, otherwise ascending, descending when sortOrder is desc
InSortOrder(x, y, filters) ==
    LET sortBy == Get(filters.sortBy)
        xVal == IF sortBy = "priority" THEN x.priority ELSE x.dueDate
        yVal == IF sortBy = "priority" THEN y.priority ELSE y.dueDate
    IN IF KeyIsNull(sortBy, xVal) THEN KeyIsNull(sortBy, yVal)
       ELSE IF KeyIsNull(sortBy, yVal) THEN TRUE
       ELSE IF filters.sortOrder = Some("desc") THEN ~KeyLess(sortBy, xVal, yVal)
       ELSE ~KeyLess(sortBy, yVal, xVal)

\* C14: with sortBy the records come ordered by that key, ascending unless
\* sortOrder is desc, and in both orders the records without a dueDate come
\* after all records with one.
C14_SortOrder ==
    (GetTasksAnswered /\ IsSome(AnsweredFilters.sortBy)) =>
       /\ \A k \in 1..(Len(MemPage.data) - 1) :
             InSortOrder(MemPage.data[k], MemPage.data[k + 1], AnsweredFilters)
       /\ \A k \in 1..(Len(SqlPage.data) - 1) :
             InSortOrder(SqlPage.data[k], SqlPage.data[k + 1], AnsweredFilters)
\* three records sorted by dueDate descending: later date, earlier date, none
C14_Witness ==
    /\ GetTasksAnswered
    /\ AnsweredFilters.sortBy = Some("dueDate") /\ AnsweredFilters.sortOrder = Some("desc")
    /\ Len(MemPage.data) = 3 /\ Len(SqlPage.data) = 3
    /\ MemPage.data[1].dueDate = "2025-12-31T23:59:59Z"
    /\ MemPage.data[2].dueDate = "2025-01-01T00:00:00Z"
    /\ MemPage.data[3].dueDate = Null
    /\ MemPage.data[1].id > MemPage.data[3].id

\* C15: without a sort key the answer is fixed by the store and the query:
\* the records returned are stored records as they are, in the order of
\* their creation, so the same query on the same store has the same answer.
C15_StableOrder ==
    (GetTasksAnswered /\ ~IsSome(AnsweredFilters.sortBy)) =>
       /\ \A k \in DOMAIN MemPage.data :
             /\ MemPage.data[k].id \in DOMAIN tasks
             /\ MemPage.data[k] = tasks[MemPage.data[k].id]
             /\ k > 1 => MemPage.data[k - 1].id < MemPage.data[k].id
       /\ \A k \in DOMAIN SqlPage.data :
             /\ SqlPage.data[k].id \in DOMAIN db
             /\ SqlPage.data[k] = rowToTask(db[SqlPage.data[k].id])
             /\ k > 1 => SqlPage.data[k - 1].id < SqlPage.data[k].id
\* an unsorted list whose first record was updated after the second was created
C15_Witness ==
    /\ GetTasksAnswered /\ ~IsSome(AnsweredFilters.sortBy)
    /\ Len(MemPage.data) >= 2 /\ Len(SqlPage.data) >= 2
    /\ MemPage.data[1].version = 2 /\ MemPage.data[2].version = 1
    /\ SqlPage.data[1].version = 2

\* A task up to its timestamps and the identity of the object that holds it
TaskView(t) == [t EXCEPT !.ref = 0, !.createdAt = 0, !.updatedAt = 0]
\* Two results of one call agree: the same classified failure, or the same
\* value up to timestamps
SameResult(op, a, b) ==
    /\ a.ok = b.ok
    /\ a.error = b.error
    /\ a.ok =>
          CASE op \in {"create", "update", "findById"} ->
                  /\ IsSome(a.value) = IsSome(b.value)
                  /\ IsSome(a.value) => TaskView(Get(a.value)) = TaskView(Get(b.value))
            [] op = "getTasks" ->
                  /\ Get(a.value).pagination = Get(b.value).pagination
                  /\ Len(Get(a.value).data) = Len(Get(b.value).data)
                  /\ \A k \in DOMAIN Get(a.value).data :
                        TaskView(Get(a.value).data[k]) = TaskView(Get(b.value).data[k])
            [] OTHER -> a.value = b.value

\* C20: after the same sequence of create, findById, findMany, update,
\* delete and exists calls with schema-valid inputs, InMemoryTaskRepository
\* and SqliteTaskRepository give the same result, or the same classified
\* failure, to every call.
C20_Interchangeable == SameResult(out.call.op, out.mem, out.sql)

\* --------------------------------------------- claims on the HTTP boundary
\* The Authorization header is not 'Bearer ' followed by API_TOKEN: it is
\* missing, of another form, or carries another token
BadCredential(header) == header # Some(Bearer \o API_TOKEN)
StoreUnchanged == tasks' = tasks /\ db' = db

\* C16: a PATCH or DELETE on /tasks/:id whose Authorization header is missing,
\* not of the form 'Bearer <token>' or carries another token than API_TOKEN is
\* answered 401, whatever its body and whether or not the task exists, and
\* leaves the store unchanged.
C16_Step ==
    (out'.request.method \in {"PATCH", "DELETE"} /\ BadCredential(out'.request.header))
    => /\ out'.response.status = 401
       /\ out'.response.body.shape = "problem" /\ out'.response.body.status = 401
       /\ StoreUnchanged
C16_AuthenticateFirst == [][C16_Step]_vars
\* a PATCH with a wrong token, a body without version and the id of no task,
\* sent while a task is stored, is answered 401
C16_Witness ==
    /\ out.request.method = "PATCH"
    /\ out.request.header = Some(Bearer \o <<"x">>)
    /\ ~IsSome(TaskUpdateInputSchema(Get(out.request.body)))
    /\ out.request.id \notin StoredIds
    /\ StoredIds # {}
    /\ out.response.status = 401

\* C17: a POST /tasks without a valid bearer token is answered 401 and
\* creates no task.
C17_Step ==
    (out'.request.method = "POST" /\ BadCredential(out'.request.header))
    => /\ out'.response.status = 401
       /\ StoreUnchanged
C17_PostRequiresToken == [][C17_Step]_vars

\* C18: every failed request is answered with a problem detail whose status
\* member is the HTTP status: 400 with per-field errors for a validation
\* failure, 404 for an absent task, 409 for a version conflict, 401 for a
\* missing or invalid credential, and 500 with the fixed detail for any
\* other error.
C18_ProblemDetails ==
    (out.request.method # "none" /\ out.response.status >= 400) =>
       /\ out.response.body.shape = "problem"
       /\ out.response.body.status = out.response.status
       /\ out.response.status \in {400, 401, 404, 409, 500}
       /\ out.response.status = 400 => out.response.body.errors
       /\ out.response.status = 500 =>
             out.response.body.detail = Message("An unexpected error occurred", None, None)
       /\ out.response.kind = "NOT_FOUND" => out.response.status = 404
       /\ out.response.kind = "CONFLICT" => out.response.status = 409
       /\ out.response.kind = "UNAUTHORIZED" => out.response.status = 401

\* ------------------------------------------- claims on the request schemas
ParsedBy(schema) == out.done /\ out.schema = schema
Accepted == IsSome(out.parsed)
AbsentOrIn(o, S) == ~IsSome(o) \/ Get(o) \in S
OrElse(o, d) == IF IsSome(o) THEN o ELSE Some(d)
\* The decimal text of a natural number, and the texts of the numbers of a set
RECURSIVE DecimalText(_)
DecimalText(n) ==
    IF n < 10 THEN <<ToString(n)>> ELSE DecimalText(n \div 10) \o <<ToString(n % 10)>>
AbsentOrTextIn(o, S) == ~IsSome(o) \/ \E n \in S : Get(o) = DecimalText(n)

\* The conditions the claim lists for each of the three inputs
CreateListed(raw) ==
    /\ IsSome(raw.title) /\ Len(Get(raw.title)) \in TitleMin..TitleMax
    /\ AbsentOrIn(raw.status, Statuses)
    /\ AbsentOrIn(raw.priority, PriorityMin..PriorityMax)
UpdateListed(raw) ==
    /\ ~IsSome(raw.title) \/ Len(Get(raw.title)) \in TitleMin..TitleMax
    /\ AbsentOrIn(raw.status, Statuses)
    /\ AbsentOrIn(raw.priority, PriorityMin..PriorityMax)
    /\ IsSome(raw.version) /\ Get(raw.version) >= 1
FiltersListed(raw) ==
    /\ AbsentOrTextIn(raw.page, 1..(PageSizeMax + 1))
    /\ AbsentOrTextIn(raw.pageSize, 1..PageSizeMax)
    /\ AbsentOrIn(raw.sortBy, {"priority", "dueDate"})
    /\ AbsentOrIn(raw.sortOrder, {"asc", "desc"})
\* The defaults of an accepted input
CreateDefaults ==
    /\ Get(out.parsed).status = OrElse(out.raw.status, "todo")
    /\ Get(out.parsed).priority = OrElse(out.raw.priority, DefaultPriority)
    /\ Get(out.parsed).tags = OrElse(out.raw.tags, <<>>)
FiltersDefaults ==
    /\ Get(out.parsed).sortOrder = OrElse(out.raw.sortOrder, "asc")
    /\ ~IsSome(out.raw.page) => Get(out.parsed).page = Some(DefaultPage)
    /\ ~IsSome(out.raw.pageSize) => Get(out.parsed).pageSize = Some(DefaultPageSize)
\* The fields the schemas constrain and the claim does not list
DueDateListed(raw) == AbsentOrIn(raw.dueDate, DueDates \cup {Null})
FilterStatusListed(raw) == AbsentOrIn(raw.status, Statuses)

C22_Step ==
    \A p \in Procs :
       UpdateEnds(p) =>
          /\ out'.response.kind = "CONFLICT" =>
                /\ req[p].id \in StoredIds
                /\ Stored(req[p].id).version # Get(out'.req.input).version
          /\ req[p].id \notin StoredIds => out'.response.kind = "NOT_FOUND"
C22_ConflictOnlyOnMismatch == [][C22_Step]_vars

\* The record of id i after the step is the record before it with every
\* field of the input applied and the version raised by one
CompleteUpdate(i, input) ==
    /\ Stored(i)'.title = (IF IsSome(input.title) THEN Get(input.title) ELSE Stored(i).title)
    /\ Stored(i)'.status = (IF IsSome(input.status) THEN Get(input.status)
                            ELSE Stored(i).status)
    /\ Stored(i)'.priority = (IF IsSome(input.priority) THEN Get(input.priority)
                              ELSE Stored(i).priority)
    /\ Stored(i)'.dueDate = (IF IsSome(input.dueDate) THEN Get(input.dueDate)
                             ELSE Stored(i).dueDate)
    /\ Stored(i)'.tags = (IF IsSome(input.tags) THEN Get(input.tags) ELSE Stored(i).tags)
    /\ Stored(i)'.version = Stored(i).version + 1

\* C23: a successful update is one transition of the store: the steps of a
\* call change a stored record only in the step that ends a successful
\* update of its id, and that step replaces the complete old record (version
\* N) by the complete new one (version N+1, every supplied field applied),
\* so a findById or findMany between any two steps reads one or the other.
C23_Step ==
    /\ \A i \in StoredIds \cap StoredIds' :
          (Stored(i)' # Stored(i) /\ pc' # pc) =>
             \E p \in Procs :
                /\ UpdateEnds(p) /\ req[p].id = i /\ out'.response.kind = "ok"
                /\ CompleteUpdate(i, Get(out'.req.input))
    /\ \A p \in Procs :
          (UpdateEnds(p) /\ out'.response.kind = "ok") =>
             \A i \in {req[p].id} :
                /\ i \in StoredIds /\ i \in StoredIds'
                /\ CompleteUpdate(i, Get(out'.req.input))
C23_AtomicUpdate == [][C23_Step]_vars
\* an update of status and priority has succeeded while another call is in
\* flight: the record read now has version 2 and both new fields
C23_Witness ==
    /\ UpdateAnswered /\ out.response.kind = "ok"
    /\ Get(out.req.input).status = Some("done") /\ Get(out.req.input).priority = Some(1)
    /\ \E p \in Procs : pc[p] # "idle"
    /\ out.req.id \in StoredIds
    /\ Stored(out.req.id).version = 2
    /\ Stored(out.req.id).status = "done" /\ Stored(out.req.id).priority = 1

\* the id a call of process p works on in this step
StepId(p) == IF pc[p] = "idle" THEN req'[p].id ELSE req[p].id
\* process p takes a step of an updateTask or a deleteTask
UpdateOrDeleteStep(p) ==
    /\ pc'[p] # pc[p]
    /\ \/ pc[p] \in {"updateTask_exists", "update_findById", "deleteTask_exists"}
       \/ pc'[p] \in {"updateTask_exists", "update_findById", "deleteTask_exists"}

\* C26: every step of an update, successful or failed, and of a delete on an
\* id A leaves the record of every other stored id B in place with all its
\* fields, version and updatedAt included.
C26_Step ==
    \A p \in Procs :
       UpdateOrDeleteStep(p) =>
          \A b \in StoredIds \ {StepId(p)} :
             /\ b \in StoredIds'
             /\ Stored(b)' = Stored(b)
C26_OtherIdsUntouched == [][C26_Step]_vars
\* an update of one id has ended in a Conflict while the record of another
\* id is stored, still at the version it was created with
C26_Witness ==
    /\ UpdateAnswered /\ out.response.kind = "CONFLICT"
    /\ out.req.id \in StoredIds
    /\ \E b \in StoredIds \ {out.req.id} : Stored(b).version = 1

\* C28: a deleteTask reports success only if its own delete removed the
\* record, so of two concurrent deleteTask calls on one stored id exactly one
\* reports success and the other NotFound.
C28_Step ==
    \A p \in Procs :
       (DeleteEnds(p) /\ out'.response.kind = "ok") =>
          /\ req[p].id \in StoredIds
          /\ req[p].id \notin StoredIds'
C28_OneDeleteSucceeds == [][C28_Step]_vars

\* ------------------------------------------------- claims on the read calls
\* C24: findById, exists, findMany, getTask and getTasks leave the store as
\* it is, and findById on an id that is not stored returns null and raises
\* nothing.
C24_Step ==
    /\ out'.call.op \in {"findById", "exists", "getTask", "getTasks"} =>
          (tasks' = tasks /\ db' = db)
    /\ (out'.call.op = "findById" /\ out'.call.id \notin DOMAIN tasks) =>
          out'.mem = Returned(None)
    /\ (out'.call.op = "findById" /\ out'.call.id \notin DOMAIN db) =>
          out'.sql = Returned(None)
C24_ReadsLeaveStore == [][C24_Step]_vars
\* findById was asked for an id whose record was deleted while another
\* record is stored, and returned null
C24_Witness ==
    /\ out.call.op = "findById" /\ out.call.id # NoId
    /\ out.call.id \notin DOMAIN tasks /\ DOMAIN tasks # {}
    /\ out.call.id \notin DOMAIN db /\ DOMAIN db # {}
    /\ out.mem = Returned(None) /\ out.sql = Returned(None)

\* ------------------------------------------------------ claims on the pages
\* The answered query asked for page n instead
PageFilters(n) == [AnsweredFilters EXCEPT !.page = Some(n)]
\* Pages 1..n of the answered query, one after the other
RECURSIVE MemPagesUpTo(_)
MemPagesUpTo(n) ==
    IF n = 0 THEN <<>>
    ELSE MemPagesUpTo(n - 1) \o MemFindMany(tasks, PageFilters(n)).tasks
RECURSIVE SqlPagesUpTo(_, _)
SqlPagesUpTo(ordered, n) ==
    IF n = 0 THEN <<>>
    ELSE SqlPagesUpTo(ordered, n - 1) \o SqlPageOf(ordered, PageFilters(n)).tasks
\* seq holds each record of the set once and nothing else
EachOnce(seq, records) ==
    /\ Len(seq) = Cardinality(records)
    /\ {seq[k] : k \in DOMAIN seq} = records
SeqRange(seq) == {seq[k] : k \in DOMAIN seq}

\* C27: with the filter, sort and page size of an answered query and the
\* store as it is, pages 1..totalPages of findMany hold every matching record
\* once, none twice and none left out, and the page after the last is empty and
\* reports the same total. (The statement and the rows being the same for
\* every page, the rows the ORDER BY leaves tied keep one order.)
C27_PagesCoverOnce ==
    GetTasksAnswered =>
       /\ LET last == MemPage.pagination.totalPages
              beyond == MemFindMany(tasks, PageFilters(last + 1))
          IN /\ EachOnce(MemPagesUpTo(last),
                         SeqRange(MemFiltered(MemValues(tasks), AnsweredFilters)))
             /\ beyond.tasks = <<>>
             /\ beyond.total = MemPage.pagination.total
       /\ \A ordered \in SqlOrderings(SqlSelected(db, AnsweredFilters), AnsweredFilters) :
             LET last == SqlPage.pagination.totalPages
                 beyond == SqlPageOf(ordered, PageFilters(last + 1))
             IN /\ EachOnce(SqlPagesUpTo(ordered, last),
                            {rowToTask(ordered[k]) : k \in DOMAIN ordered})
                /\ beyond.tasks = <<>>
                /\ beyond.total = SqlPage.pagination.total
\* page 2 of three pages of one record each, sorted by a priority that two
\* of the records share
C27_Witness ==
    /\ GetTasksAnswered
    /\ AnsweredFilters.sortBy = Some("priority")
    /\ AnsweredFilters.page = Some(2) /\ AnsweredFilters.pageSize = Some(1)
    /\ MemPage.pagination.totalPages = 3 /\ SqlPage.pagination.totalPages = 3
    /\ Len(MemPage.data) = 1 /\ Len(SqlPage.data) = 1
    /\ \E i, j \in DOMAIN tasks : i # j /\ tasks[i].priority = tasks[j].priority

\* ================================================= section B, getUser (fixed)
\* JavaScript values as they reach isValidUser: the typeof tag and the text
JsUndefined == [t |-> "undefined", v |-> ""]
JsNull == [t |-> "object", v |-> "null"]
JsString(text) == [t |-> "string", v |-> text]
JsNumber(text) == [t |-> "number", v |-> text]

\* What res.json() resolves to: an object with the four properties read by
\* the code (a property the JSON text lacks reads as undefined), null, or a
\* string
Payload(kind, id, name, email, role) ==
    [kind |-> kind, id |-> id, name |-> name, email |-> email, role |-> role]
NoPayload == Payload("none", JsUndefined, JsUndefined, JsUndefined, JsUndefined)

\* An object on the heap; ref tells two objects with equal properties apart
UserObject(ref, data) ==
    [ref |-> ref, id |-> data.id, name |-> data.name, email |-> data.email,
     role |-> data.role]
NoUser == UserObject(0, NoPayload)

UserIds == {"u1", "u2", "constructor"}
\* Keys every object literal inherits from Object.prototype
InheritedKeys == {"constructor"}

Payloads(id) ==
    { Payload("object", JsString(id), JsUndefined, JsString("a@x"), JsString("admin")),
      Payload("object", JsString(id), JsString("n"), JsString("m@x"), JsString("member")),
      Payload("object", JsString(id), JsUndefined, JsNumber("123"), JsString("admin")),
      Payload("object", JsString(id), JsUndefined, JsString("a@x"), JsString("superuser")),
      Payload("object", JsString(id), JsNull, JsString("a@x"), JsString("member")),
      Payload("object", JsUndefined, JsUndefined, JsString("a@x"), JsString("admin")),
      Payload("null", JsUndefined, JsUndefined, JsUndefined, JsUndefined),
      Payload("string", JsUndefined, JsUndefined, JsUndefined, JsUndefined) }

\* isValidUser without the test of the role
isValidUserAnyRole(data) ==
    /\ data.kind = "object"
    /\ data.id.t = "string"
    /\ (data.name = JsUndefined \/ data.name.t = "string")
    /\ data.email.t = "string"

isValidUser(data) ==
    /\ data.kind = "object"
    /\ data.id.t = "string"
    /\ (data.name = JsUndefined \/ data.name.t = "string")
    /\ data.email.t = "string"
    /\ (data.role = JsString("admin") \/ data.role = JsString("member"))

\* return cache[id], the object the cache holds
SpreadSameObject(obj, ref) == obj

\* { ...obj }: a new object with the own enumerable properties of obj
Spread(obj, ref) == [obj EXCEPT !.ref = ref]

\* cache[id]: the own property, else the one inherited from Object.prototype
\* (a function, which has none of the four properties as own enumerable
\* ones), else undefined
CacheRead(map, id) ==
    IF id \in DOMAIN map THEN Some(map[id])
    ELSE IF id \in InheritedKeys THEN Some(NoUser)
    ELSE None

UserOut(id, ok, user, res, data) ==
    [id |-> id, ok |-> ok, user |-> user, res |-> res, data |-> data]
NoUserOut == UserOut("", FALSE, NoUser, "none", NoPayload)
NoUserReq == [id |-> ""]

UserInit ==
    /\ cache = <<>>
    /\ handlers = <<>>
    /\ app = "hono"
    /\ repo = "memory"
    /\ tasks = <<>>
    /\ db = <<>>
    /\ nextId = 1
    /\ nextRef = 1
    /\ clock = 0
    /\ calls = 0
    /\ pc = [p \in Procs |-> "idle"]
    /\ req = [p \in Procs |-> NoUserReq]
    /\ loc = [p \in Procs |-> NoLoc]
    /\ out = NoUserOut

UserReturn(p, result) ==
    /\ pc' = [pc EXCEPT ![p] = "idle"]
    /\ req' = [req EXCEPT ![p] = NoUserReq]
    /\ out' = result

\* getUser(id) up to its first await: a cached entry is returned as a copy
GetUser(p, id) ==
    /\ pc[p] = "idle"
    /\ calls < MaxCalls
    /\ calls' = calls + 1
    /\ IF IsSome(CacheRead(cache, id))
       THEN /\ UserReturn(p, UserOut(id, TRUE, Spread(Get(CacheRead(cache, id)), nextRef),
                                    "hit", NoPayload))
            /\ nextRef' = nextRef + 1
       ELSE /\ pc' = [pc EXCEPT ![p] = "getUser_fetch"]
            /\ req' = [req EXCEPT ![p] = [id |-> id]]
            /\ UNCHANGED <<nextRef, out>>
    /\ UNCHANGED <<cache, handlers, app, repo, tasks, db, nextId, clock, loc>>

\* await fetch(...) settles: rejected, or a response that is ok or not
GetUserFetched(p, res) ==
    /\ pc[p] = "getUser_fetch"
    /\ IF res = "ok"
       THEN /\ pc' = [pc EXCEPT ![p] = "getUser_json"]
            /\ UNCHANGED <<req, out>>
       ELSE UserReturn(p, UserOut(req[p].id, FALSE, NoUser, res, NoPayload))
    /\ UNCHANGED <<cache, handlers, app, repo, tasks, db, nextId, nextRef, clock, calls, loc>>

\* await res.json() settles with data: validate, store, return a copy
GetUserParsed(p, data) ==
    /\ pc[p] = "getUser_json"
    /\ IF isValidUser(data)
       THEN /\ cache' = (req[p].id :> UserObject(nextRef, data)) @@ cache
            /\ UserReturn(p, UserOut(req[p].id, TRUE,
                                    Spread(UserObject(nextRef, data), nextRef + 1),
                                    "ok", data))
            /\ nextRef' = nextRef + 2
       ELSE /\ UserReturn(p, UserOut(req[p].id, FALSE, NoUser, "ok", data))
            /\ UNCHANGED <<cache, nextRef>>
    /\ UNCHANGED <<handlers, app, repo, tasks, db, nextId, clock, calls, loc>>

\* The caller assigns to a property of the object it was handed last
UserWrites ==
    { [field |-> "role", value |-> JsString("member")],
      [field |-> "role", value |-> JsString("root")],
      [field |-> "email", value |-> JsNumber("0")] }
WrittenUser(u, w) ==
    IF w.field = "role" THEN [u EXCEPT !.role = w.value] ELSE [u EXCEPT !.email = w.value]

MutateUser(w) ==
    /\ out.ok
    /\ WrittenUser(out.user, w) # out.user
    /\ out' = [out EXCEPT !.user = WrittenUser(out.user, w)]
    /\ cache' = [i \in DOMAIN cache |->
                   IF cache[i].ref = out.user.ref THEN WrittenUser(cache[i], w)
                   ELSE cache[i]]
    /\ UNCHANGED <<handlers, app, repo, tasks, db, nextId, nextRef, clock, calls, pc, req, loc>>

UserNext ==
    \/ \E p \in Procs, id \in UserIds : GetUser(p, id)
    \/ \E p \in Procs, res \in {"rejected", "notOk", "ok"} : GetUserFetched(p, res)
    \/ \E p \in Procs : \E data \in Payloads(req[p].id) : GetUserParsed(p, data)
    \/ \E w \in UserWrites : MutateUser(w)

UserSpec == UserInit /\ [][UserNext]_vars

\* --------------------------------------------------------- claims on getUser
\* A getUser call hands its result, or its failure, to the caller in this step
UserCallEnds ==
    \/ calls' # calls /\ pc' = pc
    \/ \E p \in Procs : pc[p] # "idle" /\ pc'[p] = "idle"
\* The caller writes to the object it holds in this step
UserMutates == pc' = pc /\ calls' = calls /\ out' # out
SameProperties(u, v) ==
    u.id = v.id /\ u.name = v.name /\ u.email = v.email /\ u.role = v.role

\* C21: the object getUser returns, on a hit and on a miss, is a copy: it is
\* no object the cache holds and has the properties of the cached entry; a
\* write of the caller to it leaves every cached entry as it was, so a later
\* getUser(id) returns the validated values again.
C21_Step ==
    /\ (UserCallEnds /\ out'.ok) =>
          /\ \A i \in DOMAIN cache' : cache'[i].ref # out'.user.ref
          /\ out'.id \in DOMAIN cache' => SameProperties(out'.user, cache'[out'.id])
    /\ UserMutates => cache' = cache
C21_ReturnsCopies == [][C21_Step]_vars
\* the caller made itself root on the object a cache hit returned; the cache
\* still holds the admin that was validated
C21_Witness ==
    /\ out.ok /\ out.res = "hit" /\ out.id \in DOMAIN cache
    /\ out.user.role = JsString("root")
    /\ cache[out.id].role = JsString("admin")

\* A user as the claim describes it: id and email strings, name absent or a
\* string, role admin or member
DescribedUser(d) ==
    /\ d.id.t = "string" /\ d.email.t = "string"
    /\ d.name.t \in {"undefined", "string"}
    /\ d.role.t = "string" /\ d.role.v \in {"admin", "member"}

\* C25: a fetch that is rejected or answered with a non-OK response, and a
\* payload that is no object or no user as described, make the call fail and
\* store nothing, so the id is left without an entry unless another call
\* stored one; an entry is stored only by a call whose payload is a user as
\* described, with that payload's values, and every entry is such a user.
C25_Step ==
    /\ \A p \in Procs :
          (pc[p] = "getUser_fetch" /\ pc'[p] = "idle") =>
             (~out'.ok /\ out'.res # "ok" /\ cache' = cache)
    /\ \A p \in Procs :
          (pc[p] = "getUser_json" /\ pc'[p] = "idle") =>
             /\ ~(out'.data.kind = "object" /\ DescribedUser(out'.data)) =>
                   (~out'.ok /\ cache' = cache)
             /\ out'.ok =>
                   /\ out'.data.kind = "object" /\ DescribedUser(out'.data)
                   /\ SameProperties(cache'[req[p].id], out'.data)
    /\ \A i \in DOMAIN cache' :
          /\ DescribedUser(cache'[i])
          /\ (i \notin DOMAIN cache \/ cache'[i] # cache[i]) =>
                \E p \in Procs : pc[p] = "getUser_json" /\ req[p].id = i /\ out'.ok
C25_OnlyValidatedCached == [][C25_Step]_vars
\* a payload with the role superuser made the call fail; its id has no entry
\* while another id, fetched before, has one
C25_Witness ==
    /\ ~out.ok /\ out.res = "ok" /\ out.data.kind = "object"
    /\ out.data.role = JsString("superuser")
    /\ out.id \notin DOMAIN cache /\ DOMAIN cache # {}

\* ============================================ section D, TypedEventEmitter
\* const emitter = new TypedEventEmitter<AppEvents>(): the type admits the
\* event names of AppEvents only.  handlers maps an event name to its array
\* of handlers; a name outside its domain has no array (undefined).
Events == {"task:created", "user:login", "error"}
Handlers == {"h1", "h2"}

\* this.handlers[event], as a sequence: undefined and [] both hold nothing
Registered(map, event) == IF event \in DOMAIN map THEN map[event] ELSE <<>>

\* on(event, handler)
on(map, event, handler) ==
    (event :> Append(Registered(map, event), handler)) @@ map

\* emit that runs through the array from its end
emitFromLast(map, event) ==
    IF event \notin DOMAIN map \/ Len(Registered(map, event)) = 0
    THEN [called |-> <<>>, returned |-> FALSE]
    ELSE [called |-> [k \in DOMAIN map[event] |-> map[event][Len(map[event]) + 1 - k]],
          returned |-> TRUE]

\* emit(event, payload): the handlers called, in the order of the calls, and
\* the value returned
emit(map, event) ==
    IF event \notin DOMAIN map \/ Len(Registered(map, event)) = 0
    THEN [called |-> <<>>, returned |-> FALSE]
    ELSE [called |-> map[event], returned |-> TRUE]

\* eventHandlers.filter(h => h !== handler)
RECURSIVE FilterOut(_, _)
FilterOut(s, handler) ==
    IF s = <<>> THEN <<>>
    ELSE IF Head(s) = handler THEN FilterOut(Tail(s), handler)
    ELSE <<Head(s)>> \o FilterOut(Tail(s), handler)

\* off that removes the first registration of the handler only
RECURSIVE DropFirst(_, _)
DropFirst(s, handler) ==
    IF s = <<>> THEN <<>>
    ELSE IF Head(s) = handler THEN Tail(s)
    ELSE <<Head(s)>> \o DropFirst(Tail(s), handler)
offFirstOnly(map, event, handler) ==
    IF event \in DOMAIN map
    THEN [map EXCEPT ![event] = DropFirst(map[event], handler)]
    ELSE map

\* off(event, handler)
off(map, event, handler) ==
    IF event \in DOMAIN map
    THEN [map EXCEPT ![event] = FilterOut(map[event], handler)]
    ELSE map

\* removeAllListeners(event?): event is None when the argument is left out
removeAllListeners(map, event) ==
    IF IsSome(event)
    THEN [e \in DOMAIN map \ {Get(event)} |-> map[e]]
    ELSE [e \in {} |-> map[e]]

EmitterOut(op, event, handler, called, returned) ==
    [op |-> op, event |-> event, handler |-> handler, called |-> called,
     returned |-> returned]

EmitterInit ==
    /\ cache = <<>>
    /\ handlers = [e \in {} |-> <<>>]
    /\ app = "hono"
    /\ repo = "memory"
    /\ tasks = <<>>
    /\ db = <<>>
    /\ nextId = 1
    /\ nextRef = 1
    /\ clock = 0
    /\ calls = 0
    /\ pc = [p \in Procs |-> "idle"]
    /\ req = [p \in Procs |-> NoReq]
    /\ loc = [p \in Procs |-> NoLoc]
    /\ out = EmitterOut("none", None, "", <<>>, FALSE)

EmitterOn(event, handler) ==
    /\ Len(Registered(handlers, event)) < MaxHandlers
    /\ handlers' = on(handlers, event, handler)
    /\ out' = EmitterOut("on", Some(event), handler, <<>>, FALSE)
    /\ UNCHANGED <<cache, app, repo, tasks, db, nextId, nextRef, clock, calls, pc, req, loc>>

EmitterEmit(event) ==
    /\ out' = EmitterOut("emit", Some(event), "", emit(handlers, event).called,
                         emit(handlers, event).returned)
    /\ UNCHANGED <<cache, handlers, app, repo, tasks, db, nextId, nextRef, clock, calls, pc, req, loc>>

EmitterOff(event, handler) ==
    /\ handlers' = off(handlers, event, handler)
    /\ out' = EmitterOut("off", Some(event), handler, <<>>, FALSE)
    /\ UNCHANGED <<cache, app, repo, tasks, db, nextId, nextRef, clock, calls, pc, req, loc>>

EmitterRemoveAllListeners(event) ==
    /\ handlers' = removeAllListeners(handlers, event)
    /\ out' = EmitterOut("removeAllListeners", event, "", <<>>, FALSE)
    /\ UNCHANGED <<cache, app, repo, tasks, db, nextId, nextRef, clock, calls, pc, req, loc>>

EmitterNext ==
    \/ \E event \in Events, handler \in Handlers : EmitterOn(event, handler)
    \/ \E event \in Events : EmitterEmit(event)
    \/ \E event \in Events, handler \in Handlers : EmitterOff(event, handler)
    \/ \E event \in {None} \cup {Some(e) : e \in Events} : EmitterRemoveAllListeners(event)

EmitterSpec == EmitterInit /\ [][EmitterNext]_vars

\* --------------------------------------------------- claims on the emitter
SeqElems(s) == {s[k] : k \in DOMAIN s}

\* C29: emit(event, payload) calls the handlers registered for that event at
\* the time, in the order of their registration and once for each
\* registration, calls no handler of another event, changes no registration,
\* and returns true exactly if the event has a handler registered; with none
\* it calls nothing and returns false.
C29_Step ==
    out'.op = "emit" =>
       \A e \in {Get(out'.event)} :
          /\ handlers' = handlers
          /\ out'.called = Registered(handlers, e)
          /\ out'.returned = (Len(Registered(handlers, e)) > 0)
          /\ ~out'.returned => out'.called = <<>>
C29_EmitCallsRegistered == [][C29_Step]_vars
\* an emit called h1, h2, h1 in this order while another event has h2 alone
C29_Witness ==
    /\ out.op = "emit" /\ out.returned
    /\ out.called = <<"h1", "h2", "h1">>
    /\ \E e \in DOMAIN handlers : e # Get(out.event) /\ handlers[e] = <<"h2">>

\* C30: off(event, h) removes every registration of h for that event and
\* nothing else, so no emit of that event calls h until h is registered again;
\* when off removed the last handler of the event, and when
\* removeAllListeners was called for the event or for all events, emit of the
\* event returns false.
C30_Step ==
    /\ out'.op = "off" =>
          \A e \in {Get(out'.event)} :
             /\ out'.handler \notin SeqElems(emit(handlers', e).called)
             /\ Registered(handlers', e) = FilterOut(Registered(handlers, e), out'.handler)
             /\ \A o \in Events \ {e} :
                   /\ o \in DOMAIN handlers' <=> o \in DOMAIN handlers
                   /\ Registered(handlers', o) = Registered(handlers, o)
             /\ SeqElems(Registered(handlers, e)) \subseteq {out'.handler} =>
                   ~emit(handlers', e).returned
    /\ out'.op = "removeAllListeners" =>
          \A e \in Events :
             (out'.event = None \/ out'.event = Some(e)) =>
                /\ ~emit(handlers', e).returned
                /\ emit(handlers', e).called = <<>>
C30_OffRemoves == [][C30_Step]_vars
\* off removed both registrations of h1, the only handler of its event, while
\* h1 stays registered for another event
C30_Witness ==
    /\ out.op = "off" /\ out.handler = "h1"
    /\ Get(out.event) \in DOMAIN handlers /\ handlers[Get(out.event)] = <<>>
    /\ ~emit(handlers, Get(out.event)).returned
    /\ \E o \in DOMAIN handlers : o # Get(out.event) /\ "h1" \in SeqElems(handlers[o])

====
